---------------------------- MODULE Spec2Model ----------------------------
(***************************************************************************)
(* PFIS: personal finance and investment tracking.                         *)
(*                                                                         *)
(* Two programs share one relational schema:                               *)
(*   - the web application (src/app): SQLAlchemy models, crud.py, and the  *)
(*     startup pass db_init._ensure_master_defaults;                       *)
(*   - the dashboard script (src/finance_app): sqlite3 + SQL text.         *)
(*                                                                         *)
(* Strings.  A name is a sequence of characters, so that Python's          *)
(* substring test `keyword in action_name` and SQL's instr() are computed  *)
(* as the code computes them.  The module is ASCII: a Chinese character is *)
(* written as its pinyin syllable with the tone digit ("mai3" is 买,       *)
(* "mai4" is 卖), a Latin letter as itself.                                *)
(***************************************************************************)
EXTENDS Integers, Sequences, FiniteSets, TLC

VARIABLES
    db,      \* web app: the committed database, table name -> set of rows
    pass,    \* web app: position of init_db / _ensure_master_defaults
    snap,    \* web app: the database as it was when the running pass began
    nops,    \* number of state-changing requests served so far
    boots,   \* number of times the database was initialised (init_db / create_tables)
    call     \* dashboard: the add_investment_log call in progress or just returned

vars == <<db, pass, snap, nops, boots, call>>

-----------------------------------------------------------------------------
(* Bounds of the model *)

MaxOps == 2          \* state-changing requests in one behaviour
MaxBoots == 3        \* starts of the web application in one behaviour
MaxInits == 2        \* calls of the dashboard's create_tables in one behaviour

-----------------------------------------------------------------------------
(* Values *)

\* Python None / SQL NULL in an integer column (row ids start at 1)
NULL == 0

\* None for an optional string argument
NoName == <<>>
NoStatus == "None"

\* a name a user types that is no default of any table
CustomName == <<"X">>

MaxOf(S) == CHOOSE m \in S : \A x \in S : x <= m
MinOf(S) == CHOOSE m \in S : \A x \in S : m <= x

RECURSIVE OrderAsc(_)
\* ORDER BY id: the ascending sequence of a set of integers
OrderAsc(S) ==
    IF S = {} THEN <<>>
    ELSE LET m == MinOf(S) IN <<m>> \o OrderAsc(S \ {m})

SeqToSet(s) == {s[i] : i \in 1..Len(s)}

-----------------------------------------------------------------------------
(* Schema of the web application *)

\* MASTER_DEFAULTS.items(), in dict order
TableSeq ==
    << "dim_account", "dim_category", "dim_product_type", "dim_risk_level",
       "dim_action_type", "dim_source_type", "dim_metric", "dim_investment_term" >>

MasterTables == SeqToSet(TableSeq)

TxTables == {"cash_flow", "investment_log", "product_master", "product_metrics"}

MASTER_DEFAULTS ==
    [ dim_account |->
        << <<"xian4","jin1","zhang4","hu4">>,        \* 现金账户
           <<"yin2","hang2","ka3">>,                 \* 银行卡
           <<"zheng4","quan4","zhang4","hu4">> >>,   \* 证券账户
      dim_category |->
        << <<"gong1","zi1","shou1","ru4">>,          \* 工资收入
           <<"sheng1","huo2","zhi1","chu1">>,        \* 生活支出
           <<"tou2","zi1","zhuan3","chu1">>,         \* 投资转出
           <<"tou2","zi1","hui2","liu2">> >>,        \* 投资回流
      dim_product_type |->
        << <<"huo4","bi4","ji1","jin1">>,            \* 货币基金
           <<"gu3","piao4","ji1","jin1">>,           \* 股票基金
           <<"zhai4","quan4">> >>,                   \* 债券
      dim_risk_level |->
        << <<"di1">>, <<"zhong1">>, <<"gao1">> >>,   \* 低 中 高
      dim_action_type |->
        << <<"mai3","ru4">>,                         \* 买入
           <<"shu2","hui2">>,                        \* 赎回
           <<"fen1","hong2">> >>,                    \* 分红
      dim_source_type |->
        << <<"gong1","zi1">>,                        \* 工资
           <<"li3","cai2">>,                         \* 理财
           <<"qi2","ta1">> >>,                       \* 其他
      dim_metric |->
        << <<"jing4","zhi2">>,                       \* 净值
           <<"shou1","yi4","lv4">>,                  \* 收益率
           <<"bo1","dong4","lv4">> >>,               \* 波动率
      dim_investment_term |->
        << <<"T","+","1">>, <<"T","+","7">>,         \* T+1 T+7
           <<"3","0","tian1">>,                      \* 30天
           <<"9","0","tian1">> >> ]                  \* 90天

\* Column(String, unique=True) on name: every master model but DimCategory
UniqueName(table) == table # "dim_category"

\* master table -> the (table, column) pairs that hold its ids
\* variant: the map without the entry of DimCategory
REFERENCE_MAP_NoCategory ==
    [ dim_account |-> { <<"cash_flow", "account_id">>,
                        <<"investment_log", "channel_account_id">> },
      dim_category |-> {},
      dim_source_type |-> { <<"cash_flow", "source_type_id">> },
      dim_action_type |-> { <<"investment_log", "action_id">> },
      dim_product_type |-> { <<"product_master", "type_id">> },
      dim_risk_level |-> { <<"product_master", "risk_level_id">> },
      dim_metric |-> { <<"product_metrics", "metric_id">> },
      dim_investment_term |-> { <<"product_master", "investment_term_id">> } ]

REFERENCE_MAP ==
    [ dim_account |-> { <<"cash_flow", "account_id">>,
                        <<"investment_log", "channel_account_id">> },
      dim_category |-> { <<"cash_flow", "category_id">> },
      dim_source_type |-> { <<"cash_flow", "source_type_id">> },
      dim_action_type |-> { <<"investment_log", "action_id">> },
      dim_product_type |-> { <<"product_master", "type_id">> },
      dim_risk_level |-> { <<"product_master", "risk_level_id">> },
      dim_metric |-> { <<"product_metrics", "metric_id">> },
      dim_investment_term |-> { <<"product_master", "investment_term_id">> } ]

\* models.py: the ForeignKey(...) columns of the transactional models, by the
\* master table they point to (investment_term_id is the column migrations.py adds)
ForeignKeys(table) ==
    CASE table = "dim_account" -> { <<"cash_flow", "account_id">>,
                                    <<"investment_log", "channel_account_id">> }
      [] table = "dim_category" -> { <<"cash_flow", "category_id">> }
      [] table = "dim_source_type" -> { <<"cash_flow", "source_type_id">> }
      [] table = "dim_action_type" -> { <<"investment_log", "action_id">> }
      [] table = "dim_product_type" -> { <<"product_master", "type_id">> }
      [] table = "dim_risk_level" -> { <<"product_master", "risk_level_id">> }
      [] table = "dim_metric" -> { <<"product_metrics", "metric_id">> }
      [] table = "dim_investment_term" -> { <<"product_master", "investment_term_id">> }

\* a database with the tables created and no row (Base.metadata.create_all)
EmptyDb == [t \in MasterTables \cup TxTables |-> {}]

\* INTEGER PRIMARY KEY without AUTOINCREMENT: the largest rowid in use plus one
NextId(rows) == IF rows = {} THEN 1 ELSE MaxOf({r.id : r \in rows}) + 1

\* Session.get(model, id)
Row(rows, id) == CHOOSE r \in rows : r.id = id
Has(rows, id) == \E r \in rows : r.id = id

-----------------------------------------------------------------------------
(* db_init.py: the startup pass *)

RECURSIVE ReassignColumns(_, _, _, _)
ReassignColumns(row, cols, source_id, target_id) ==
    IF cols = {} THEN row
    ELSE LET c == CHOOSE c \in cols : TRUE IN
         ReassignColumns(
            IF row[c] = source_id THEN [row EXCEPT ![c] = target_id] ELSE row,
            cols \ {c}, source_id, target_id)

\* the mapped UPDATE ... SET column = target WHERE column = source, per column
ReassignIn(d, model_cls, source_id, target_id) ==
    [ t \in DOMAIN d |->
        LET cols == { m[2] : m \in { x \in REFERENCE_MAP[model_cls] : x[1] = t } } IN
        { ReassignColumns(r, cols, source_id, target_id) : r \in d[t] } ]

\* variant: the UPDATE with source and target exchanged
_reassign_references_swapped(d, model_cls, source_id, target_id) ==
    ReassignIn(d, model_cls, target_id, source_id)

\* _reassign_references: the UPDATEs of REFERENCE_MAP[model_cls], committed
_reassign_references(d, model_cls, source_id, target_id) ==
    ReassignIn(d, model_cls, source_id, target_id)

\* variant: the kept row's status is left alone
NeverReactivate(row) == FALSE

\* line 67: the first row of a name is reactivated when it is not active
NeedsReactivation(row) == row.status # "active"

RECURSIVE Scan(_, _, _, _)
\* lines 64-70: walk the loaded rows while each one is the first of its name;
\* stops in front of the first duplicate.  act: kept rows whose status the
\* session has set to active and not flushed yet.
Scan(rows, ids, kept, act) ==
    IF ids = <<>> THEN [rest |-> ids, kept |-> kept, act |-> act]
    ELSE LET row == Row(rows, Head(ids)) IN
         IF \E p \in kept : p[1] = row.name
         THEN [rest |-> ids, kept |-> kept, act |-> act]
         ELSE Scan(rows, Tail(ids), kept \cup {<<row.name, row.id>>},
                   IF NeedsReactivation(row) THEN act \cup {row.id} ELSE act)

\* the flush of a commit, in the master table: pending status changes and
\* pending deletes
Flush(rows, act, del) ==
    { IF r.id \in act THEN [r EXCEPT !.status = "active"] ELSE r :
        r \in { x \in rows : x.id \notin del } }

\* the flush of session.delete(row), in the other tables: the relationships of
\* a master model carry no delete cascade, so the rows that still reference
\* the deleted row get NULL in that column (del holds at most one id)
Nullify(d, model_cls, del) ==
    IF del = {} THEN d
    ELSE LET row_id == CHOOSE x \in del : TRUE IN
         [ t \in DOMAIN d |->
             LET cols == { m[2] : m \in { x \in ForeignKeys(model_cls) : x[1] = t } } IN
             { ReassignColumns(r, cols, row_id, NULL) : r \in d[t] } ]

RECURSIVE SelectSeq2(_, _)
SelectSeq2(s, keep) ==
    IF s = <<>> THEN <<>>
    ELSE (IF Head(s) \in keep THEN <<Head(s)>> ELSE <<>>) \o SelectSeq2(Tail(s), keep)

\* variant: every default name is taken as missing
MissingNamesAll(rows, names) == names

\* lines 77-85: the default names no row of the table carries
MissingNames(rows, names) ==
    LET existing_names == { r.name : r \in { x \in rows : x.name \in SeqToSet(names) } } IN
    SelectSeq2(names, SeqToSet(names) \ existing_names)

Serving == pass.pc \in {"idle", "up"}

\* lines 56-62: SELECT the rows carrying a default name, ORDER BY id
LoadRows(d, model_cls) ==
    LET names == SeqToSet(MASTER_DEFAULTS[model_cls]) IN
    OrderAsc({ r.id : r \in { x \in d[model_cls] : x.name \in names } })

\* init_db: the application starts and the pass loads the first model's rows
init_db ==
    /\ pass.pc \in {"stopped", "idle", "up"}
    /\ boots < MaxBoots
    /\ boots' = boots + 1
    /\ snap' = db
    /\ pass' = [pc |-> "scan", ti |-> 1, ids |-> LoadRows(db, TableSeq[1]),
                kept |-> {}, del |-> {}, names |-> <<>>, rerun |-> (pass.pc = "idle")]
    /\ UNCHANGED <<db, nops, call>>

\* lines 64-73, up to and including the next duplicate: its references are
\* rewritten and committed (the commit flushes what the session holds), then
\* the duplicate is marked for deletion
PassMerge ==
    /\ pass.pc = "scan"
    /\ LET model_cls == TableSeq[pass.ti]
           s == Scan(db[model_cls], pass.ids, pass.kept, {}) IN
       /\ s.rest # <<>>
       /\ LET row == Row(db[model_cls], Head(s.rest))
              primary == CHOOSE p \in s.kept : p[1] = row.name
              d1 == _reassign_references(db, model_cls, row.id, primary[2]) IN
          /\ db' = [Nullify(d1, model_cls, pass.del) EXCEPT
                       ![model_cls] = Flush(@, s.act, pass.del)]
          /\ pass' = [pass EXCEPT !.ids = Tail(s.rest), !.kept = s.kept, !.del = {row.id}]
    /\ UNCHANGED <<snap, nops, boots, call>>

\* lines 64-81 when no duplicate is left: commit, then read the names present
PassCommit ==
    /\ pass.pc = "scan"
    /\ LET model_cls == TableSeq[pass.ti]
           s == Scan(db[model_cls], pass.ids, pass.kept, {})
           rows == Flush(db[model_cls], s.act, pass.del) IN
       /\ s.rest = <<>>
       /\ db' = [Nullify(db, model_cls, pass.del) EXCEPT ![model_cls] = rows]
       /\ pass' = [pass EXCEPT !.pc = "insert", !.ids = <<>>, !.kept = s.kept, !.del = {},
                               !.names = MissingNames(rows, MASTER_DEFAULTS[model_cls])]
    /\ UNCHANGED <<snap, nops, boots, call>>

\* lines 83-91: insert one missing default name; IntegrityError rolls back
PassInsert ==
    /\ pass.pc = "insert"
    /\ pass.names # <<>>
    /\ LET model_cls == TableSeq[pass.ti]
           name == Head(pass.names) IN
       /\ db' = IF UniqueName(model_cls) /\ \E r \in db[model_cls] : r.name = name
                THEN db
                ELSE [db EXCEPT ![model_cls] =
                        @ \cup {[id |-> NextId(@), name |-> name, status |-> "active"]}]
       /\ pass' = [pass EXCEPT !.names = Tail(@)]
    /\ UNCHANGED <<snap, nops, boots, call>>

\* line 55: the loop takes the next model and loads its rows; after the last
\* model init_db returns and the application serves requests
PassNextTable ==
    /\ pass.pc = "insert"
    /\ pass.names = <<>>
    /\ pass' = IF pass.ti < Len(TableSeq)
               THEN [pass EXCEPT !.pc = "scan", !.ti = @ + 1,
                                 !.ids = LoadRows(db, TableSeq[pass.ti + 1]),
                                 !.kept = {}, !.del = {}]
               ELSE [pass EXCEPT !.pc = "idle", !.ti = 1, !.kept = {}]
    /\ UNCHANGED <<db, snap, nops, boots, call>>

-----------------------------------------------------------------------------
(* crud.py: master data maintenance *)

\* a request changed the database: the state is no longer the one the pass left
Touch ==
    /\ nops' = nops + 1
    /\ pass' = [pass EXCEPT !.pc = "up", !.rerun = FALSE]
    /\ snap' = EmptyDb

create_master_data(table, name) ==
    /\ Serving /\ nops < MaxOps
    /\ IF UniqueName(table) /\ \E r \in db[table] : r.name = name
       THEN UNCHANGED <<nops, db, pass, snap>>
       ELSE /\ db' = [db EXCEPT ![table] =
                        @ \cup {[id |-> NextId(@), name |-> name, status |-> "active"]}]
            /\ Touch
    /\ UNCHANGED <<boots, call>>

\* variant: setting a row inactive also clears the foreign keys that point at it
toggle_master_status_detaching(table, row_id, status) ==
    /\ Serving /\ nops < MaxOps
    /\ IF ~Has(db[table], row_id)
       THEN UNCHANGED <<nops, db, pass, snap>>
       ELSE /\ db' = [ (IF status = "inactive" THEN Nullify(db, table, {row_id}) ELSE db)
                         EXCEPT ![table] =
                        { IF r.id = row_id THEN [r EXCEPT !.status = status] ELSE r : r \in @ }]
            /\ Touch
    /\ UNCHANGED <<boots, call>>

toggle_master_status(table, row_id, status) ==
    /\ Serving /\ nops < MaxOps
    /\ IF ~Has(db[table], row_id)
       THEN UNCHANGED <<nops, db, pass, snap>>
       ELSE /\ db' = [db EXCEPT ![table] =
                        { IF r.id = row_id THEN [r EXCEPT !.status = status] ELSE r : r \in @ }]
            /\ Touch
    /\ UNCHANGED <<boots, call>>

soft_delete_master(table, row_id) ==
    /\ Serving /\ nops < MaxOps
    /\ IF ~Has(db[table], row_id)
       THEN UNCHANGED <<nops, db, pass, snap>>
       ELSE /\ db' = [db EXCEPT ![table] =
                        { IF r.id = row_id THEN [r EXCEPT !.status = "inactive"] ELSE r : r \in @ }]
            /\ Touch
    /\ UNCHANGED <<boots, call>>

update_master_data(table, row_id, name, status) ==
    /\ Serving /\ nops < MaxOps
    /\ IF \/ ~Has(db[table], row_id)
          \/ /\ name # NoName /\ UniqueName(table)
             /\ \E r \in db[table] : r.name = name /\ r.id # row_id
       THEN UNCHANGED <<nops, db, pass, snap>>
       ELSE /\ db' = [db EXCEPT ![table] =
                        { IF r.id = row_id
                          THEN [r EXCEPT !.name = IF name # NoName THEN name ELSE @,
                                         !.status = IF status # NoStatus THEN status ELSE @]
                          ELSE r : r \in @ }]
            /\ Touch
    /\ UNCHANGED <<boots, call>>

-----------------------------------------------------------------------------
(* crud.py: recording *)

create_cash_flow(payload) ==
    /\ Serving /\ nops < MaxOps
    /\ db' = [db EXCEPT !["cash_flow"] =
                @ \cup {[id |-> NextId(@), date |-> payload.date,
                         account_id |-> payload.account_id,
                         category_id |-> payload.category_id,
                         flow_type |-> payload.flow_type,
                         amount |-> payload.amount,
                         source_type_id |-> payload.source_type_id,
                         status |-> "active",
                         link_investment_id |-> payload.link_investment_id]}]
    /\ Touch
    /\ UNCHANGED <<boots, call>>

create_investment(payload) ==
    /\ Serving /\ nops < MaxOps
    /\ db' = [db EXCEPT !["investment_log"] =
                @ \cup {[id |-> NextId(@), date |-> payload.date,
                         product_id |-> payload.product_id,
                         action_id |-> payload.action_id,
                         amount |-> payload.amount,
                         channel_account_id |-> payload.channel_account_id,
                         status |-> "active",
                         cashflow_link_id |-> NULL]}]
    /\ Touch
    /\ UNCHANGED <<boots, call>>

\* variant: the update also sets the row active again
update_cash_flow_reactivating(record_id, payload) ==
    /\ Serving /\ nops < MaxOps
    /\ IF ~Has(db["cash_flow"], record_id)
       THEN UNCHANGED <<nops, db, pass, snap>>
       ELSE /\ db' = [db EXCEPT !["cash_flow"] =
                        { IF r.id = record_id
                          THEN [r EXCEPT !.date = payload.date,
                                         !.account_id = payload.account_id,
                                         !.category_id = payload.category_id,
                                         !.flow_type = payload.flow_type,
                                         !.amount = payload.amount,
                                         !.source_type_id = payload.source_type_id,
                                         !.link_investment_id = payload.link_investment_id,
                                         !.status = "active"]
                          ELSE r : r \in @ }]
            /\ Touch
    /\ UNCHANGED <<boots, call>>

update_cash_flow(record_id, payload) ==
    /\ Serving /\ nops < MaxOps
    /\ IF ~Has(db["cash_flow"], record_id)
       THEN UNCHANGED <<nops, db, pass, snap>>
       ELSE /\ db' = [db EXCEPT !["cash_flow"] =
                        { IF r.id = record_id
                          THEN [r EXCEPT !.date = payload.date,
                                         !.account_id = payload.account_id,
                                         !.category_id = payload.category_id,
                                         !.flow_type = payload.flow_type,
                                         !.amount = payload.amount,
                                         !.source_type_id = payload.source_type_id,
                                         !.link_investment_id = payload.link_investment_id]
                          ELSE r : r \in @ }]
            /\ Touch
    /\ UNCHANGED <<boots, call>>

\* variant: the status is blanked, not set to 'inactive'
soft_delete_cashflow_blank(record_id) ==
    /\ Serving /\ nops < MaxOps
    /\ IF ~Has(db["cash_flow"], record_id)
       THEN UNCHANGED <<nops, db, pass, snap>>
       ELSE /\ db' = [db EXCEPT !["cash_flow"] =
                        { IF r.id = record_id THEN [r EXCEPT !.status = ""] ELSE r : r \in @ }]
            /\ Touch
    /\ UNCHANGED <<boots, call>>

soft_delete_cashflow(record_id) ==
    /\ Serving /\ nops < MaxOps
    /\ IF ~Has(db["cash_flow"], record_id)
       THEN UNCHANGED <<nops, db, pass, snap>>
       ELSE /\ db' = [db EXCEPT !["cash_flow"] =
                        { IF r.id = record_id THEN [r EXCEPT !.status = "inactive"] ELSE r : r \in @ }]
            /\ Touch
    /\ UNCHANGED <<boots, call>>

update_investment(record_id, payload) ==
    /\ Serving /\ nops < MaxOps
    /\ IF ~Has(db["investment_log"], record_id)
       THEN UNCHANGED <<nops, db, pass, snap>>
       ELSE /\ db' = [db EXCEPT !["investment_log"] =
                        { IF r.id = record_id
                          THEN [r EXCEPT !.date = payload.date,
                                         !.product_id = payload.product_id,
                                         !.action_id = payload.action_id,
                                         !.amount = payload.amount,
                                         !.channel_account_id = payload.channel_account_id]
                          ELSE r : r \in @ }]
            /\ Touch
    /\ UNCHANGED <<boots, call>>

\* variant: the cash flows linked to the log are set inactive with it
soft_delete_investment_cascade(record_id) ==
    /\ Serving /\ nops < MaxOps
    /\ IF ~Has(db["investment_log"], record_id)
       THEN UNCHANGED <<nops, db, pass, snap>>
       ELSE /\ db' = [db EXCEPT
                        !["investment_log"] =
                           { IF r.id = record_id THEN [r EXCEPT !.status = "inactive"] ELSE r : r \in @ },
                        !["cash_flow"] =
                           { IF r.link_investment_id = record_id
                             THEN [r EXCEPT !.status = "inactive"] ELSE r : r \in @ }]
            /\ Touch
    /\ UNCHANGED <<boots, call>>

soft_delete_investment(record_id) ==
    /\ Serving /\ nops < MaxOps
    /\ IF ~Has(db["investment_log"], record_id)
       THEN UNCHANGED <<nops, db, pass, snap>>
       ELSE /\ db' = [db EXCEPT !["investment_log"] =
                        { IF r.id = record_id THEN [r EXCEPT !.status = "inactive"] ELSE r : r \in @ }]
            /\ Touch
    /\ UNCHANGED <<boots, call>>

-----------------------------------------------------------------------------
(* finance_app: the dashboard script.  It opens the same file db/finance.db *)
(* with sqlite3; its tables are created by db_init.create_tables.            *)

\* seed_master_data: master_defaults.items(), in dict order
DashTableSeq ==
    << "dim_account", "dim_category", "dim_product_type", "dim_risk_level",
       "dim_action_type", "dim_source_type" >>

DashMasterTables == SeqToSet(DashTableSeq)

DashTables ==
    DashMasterTables \cup {"cash_flow", "product_master", "investment_log", "holding_status"}

\* the literal of seed_master_data: the names of MASTER_DEFAULTS for its six tables
master_defaults == [t \in DashMasterTables |-> MASTER_DEFAULTS[t]]

\* CREATE TABLE: name TEXT UNIQUE NOT NULL in every dim table but dim_category
DashUniqueName(table) == table # "dim_category"

\* the file before create_tables has run (no row anywhere)
DashEmptyDb == [t \in DashTables |-> {}]

\* INSERT OR IGNORE INTO table (name) VALUES (?): ignored when a UNIQUE
\* constraint rejects the row.  AUTOINCREMENT: no row is ever deleted here, so
\* the next id is the largest id plus one.
InsertOrIgnore(rows, table, name) ==
    IF DashUniqueName(table) /\ \E r \in rows : r.name = name
    THEN rows
    ELSE rows \cup {[id |-> NextId(rows), name |-> name]}

RECURSIVE SeedNames(_, _, _)
SeedNames(rows, table, names) ==
    IF names = <<>> THEN rows
    ELSE SeedNames(InsertOrIgnore(rows, table, Head(names)), table, Tail(names))

seed_master_data(d) ==
    [t \in DOMAIN d |->
        IF t \in DashMasterTables THEN SeedNames(d[t], t, master_defaults[t]) ELSE d[t]]

\* master_data.add_to_master, as a change of the database
add_to_master(d, table_name, new_name) ==
    [d EXCEPT ![table_name] = InsertOrIgnore(@, table_name, new_name)]

\* Python's `keyword in action_name`, SQL's instr(name, keyword) > 0
Contains(name, keyword) ==
    \E i \in 1..(Len(name) - Len(keyword) + 1) :
        SubSeq(name, i, i + Len(keyword) - 1) = keyword

BUY_KEYWORDS ==
    { <<"mai3">>,                  \* 买
      <<"shen1", "gou4">>,         \* 申购
      <<"jia1", "cang1">> }        \* 加仓

INCOME_KEYWORDS ==
    { <<"shu2">>,                  \* 赎
      <<"fen1", "hong2">>,         \* 分红
      <<"hui2", "kuan3">>,         \* 回款
      <<"pai4", "xi1">>,           \* 派息
      <<"mai4">> }                 \* 卖

\* None as the result of _match_flow_type
NoFlowType == "None"

\* variant: whatever is no buy counts as income
_match_flow_type_or_income(action_name) ==
    IF \E keyword \in BUY_KEYWORDS : Contains(action_name, keyword) THEN "zhichu"
    ELSE "shouru"

\* 支出 is "zhichu", 收入 is "shouru"
_match_flow_type(action_name) ==
    IF \E keyword \in BUY_KEYWORDS : Contains(action_name, keyword) THEN "zhichu"
    ELSE IF \E keyword \in INCOME_KEYWORDS : Contains(action_name, keyword) THEN "shouru"
    ELSE NoFlowType

\* SELECT name FROM dim_action_type WHERE id = ?; "" when there is no row
_get_action_name(d, action_id) ==
    IF Has(d["dim_action_type"], action_id)
    THEN Row(d["dim_action_type"], action_id).name
    ELSE <<>>

\* lines 33-37, 41-45: the row is added when the SELECT finds none
EnsureNamed(d, table, name) ==
    IF \E r \in d[table] : r.name = name THEN d ELSE add_to_master(d, table, name)

\* fetchone() of SELECT id ... WHERE name = ?: one of the rows that carry the
\* name (no ORDER BY: which one is not specified)
IdsNamed(d, table, name) == { r.id : r \in { x \in d[table] : x.name = name } }

DefaultAccountName == <<"mo4", "ren4", "zhang4", "hu4">>     \* 默认账户

\* _get_default_account: SELECT id FROM dim_account ORDER BY id LIMIT 1
EnsureAccount(d) ==
    IF d["dim_account"] # {} THEN d ELSE add_to_master(d, "dim_account", DefaultAccountName)

\* cash_flow.add_cash_flow, as a change of the database
add_cash_flow(d, flow_date, account_id, category_id, flow_type, amount, source_type_id, remark, link_investment_id) ==
    [d EXCEPT !["cash_flow"] =
        @ \cup {[id |-> NextId(@), date |-> flow_date, account_id |-> account_id,
                 category_id |-> category_id, flow_type |-> flow_type,
                 amount |-> amount, source_type_id |-> source_type_id,
                 remark |-> remark, link_investment_id |-> link_investment_id]}]

\* f"理财操作：{action_name}"
AutoRemarkPrefix == <<"li3", "cai2", "cao1", "zuo4", ":">>
AutoRemark(action_name) == AutoRemarkPrefix \o action_name

\* variant: SELECT MIN(id) ...
MinLinkedCashId(rows, log_id) ==
    LET linked == { c.id : c \in { x \in rows : x.link_investment_id = log_id } } IN
    IF linked = {} THEN NULL ELSE MinOf(linked)

\* SELECT MAX(id) FROM cash_flow WHERE link_investment_id = ?
MaxLinkedCashId(rows, log_id) ==
    LET linked == { c.id : c \in { x \in rows : x.link_investment_id = log_id } } IN
    IF linked = {} THEN NULL ELSE MaxOf(linked)

RECURSIVE SumOf(_)
\* SUM over a set of <<row id, value>> pairs
SumOf(pairs) ==
    IF pairs = {} THEN 0
    ELSE LET p == CHOOSE p \in pairs : TRUE IN p[2] + SumOf(pairs \ {p})

\* the SELECT of update_holdings for one product: its logs joined to their
\* action type
HoldingOf(d, product_id) ==
    LET logs == { l \in d["investment_log"] :
                    l.product_id = product_id /\ Has(d["dim_action_type"], l.action_id) }
        name(l) == Row(d["dim_action_type"], l.action_id).name
        buy(l) == Contains(name(l), <<"mai3">>) \/ Contains(name(l), <<"shen1">>)
        back(l) == \/ Contains(name(l), <<"shu2">>)
                   \/ Contains(name(l), <<"fen1", "hong2">>)
                   \/ Contains(name(l), <<"hui2", "kuan3">>) IN
    [ product_id |-> product_id,
      total_invest |-> SumOf({ <<l.id, IF buy(l) THEN l.amount ELSE 0 - l.amount>> : l \in logs }),
      est_profit |-> SumOf({ <<l.id, IF back(l) THEN l.amount ELSE 0>> : l \in logs })
                     - SumOf({ <<l.id, IF buy(l) THEN l.amount ELSE 0>> : l \in logs }) ]

RECURSIVE InsertHoldings(_, _, _)
\* INSERT OR REPLACE INTO holding_status: the table has no UNIQUE constraint on
\* product_id, so every selected row is inserted under a new id
InsertHoldings(rows, d, product_ids) ==
    IF product_ids = <<>> THEN rows
    ELSE LET h == HoldingOf(d, Head(product_ids)) IN
         InsertHoldings(
            rows \cup {[id |-> NextId(rows), product_id |-> h.product_id,
                        total_invest |-> h.total_invest, est_profit |-> h.est_profit]},
            d, Tail(product_ids))

update_holdings(d) ==
    LET joined == { l \in d["investment_log"] : Has(d["dim_action_type"], l.action_id) } IN
    [d EXCEPT !["holding_status"] =
        InsertHoldings(@, d, OrderAsc({ l.product_id : l \in joined }))]

\* no add_investment_log call is in progress
IdleCall ==
    [ pc |-> "idle", log_id |-> NULL, action_id |-> NULL, amount |-> 0,
      log_date |-> <<>>, channel_id |-> NULL, link_cashflow |-> FALSE, cash_before |-> {} ]

\* the script is between two requests
DashReady == boots >= 1 /\ call.pc \in {"idle", "returned"}

\* db_init.create_tables: CREATE TABLE IF NOT EXISTS ..., then seed_master_data
create_tables ==
    /\ pass.pc = "stopped"
    /\ call.pc \in {"idle", "returned"}
    /\ boots < MaxInits
    /\ boots' = boots + 1
    /\ db' = seed_master_data(db)
    /\ call' = IdleCall
    /\ UNCHANGED <<pass, snap, nops>>

\* a call of master_data.add_to_master from the master data page
AddToMaster(table_name, new_name) ==
    /\ DashReady /\ nops < MaxOps
    /\ new_name # <<>>
    /\ db' = add_to_master(db, table_name, new_name)
    /\ nops' = nops + 1
    /\ call' = IdleCall
    /\ UNCHANGED <<pass, snap, boots>>

\* a call of cash_flow.add_cash_flow
AddCashFlow(flow_date, account_id, category_id, flow_type, amount, source_type_id, remark, link_investment_id) ==
    /\ DashReady /\ nops < MaxOps
    /\ db' = add_cash_flow(db, flow_date, account_id, category_id, flow_type, amount,
                           source_type_id, remark, link_investment_id)
    /\ nops' = nops + 1
    /\ call' = IdleCall
    /\ UNCHANGED <<pass, snap, boots>>

\* add_investment_log, lines 58-74: the log row is inserted and committed
AddLogInsert(log_date, product_id, action_id, amount, channel_id, link_cashflow) ==
    /\ DashReady /\ nops < MaxOps
    /\ LET log_id == NextId(db["investment_log"]) IN
       /\ db' = [db EXCEPT !["investment_log"] =
                    @ \cup {[id |-> log_id, date |-> log_date, product_id |-> product_id,
                             action_id |-> action_id, amount |-> amount,
                             channel_id |-> channel_id, cashflow_link_id |-> NULL]}]
       /\ call' = [ pc |-> "logged", log_id |-> log_id, action_id |-> action_id,
                    amount |-> amount, log_date |-> log_date, channel_id |-> channel_id,
                    link_cashflow |-> link_cashflow,
                    cash_before |-> { c.id : c \in db["cash_flow"] } ]
    /\ nops' = nops + 1
    /\ UNCHANGED <<pass, snap, boots>>

\* lines 76-79: a cash flow is to be generated
WantsCashFlow ==
    call.link_cashflow /\ _match_flow_type(_get_action_name(db, call.action_id)) # NoFlowType

\* lines 80-93: the cash flow row is inserted and committed
AddLogCashFlow ==
    /\ call.pc = "logged"
    /\ WantsCashFlow
    /\ LET action_name == _get_action_name(db, call.action_id)
           flow_type == _match_flow_type(action_name)
           category_name == IF flow_type = "zhichu"
                            THEN <<"tou2", "zi1", "zhuan3", "chu1">>     \* 投资转出
                            ELSE <<"tou2", "zi1", "hui2", "liu2">>       \* 投资回流
           d1 == EnsureNamed(db, "dim_category", category_name)
           d2 == EnsureNamed(d1, "dim_source_type", <<"li3", "cai2">>)   \* 理财
           d3 == IF call.channel_id # NULL THEN d2 ELSE EnsureAccount(d2)
           account_id == IF call.channel_id # NULL THEN call.channel_id
                         ELSE MinOf({ r.id : r \in d3["dim_account"] }) IN
       \E category_id \in IdsNamed(d3, "dim_category", category_name) :
          \E source_id \in IdsNamed(d3, "dim_source_type", <<"li3", "cai2">>) :
             db' = add_cash_flow(d3, call.log_date, account_id, category_id, flow_type,
                                 call.amount, source_id, AutoRemark(action_name),
                                 call.log_id)
    /\ call' = [call EXCEPT !.pc = "cashed"]
    /\ UNCHANGED <<pass, snap, nops, boots>>

\* lines 94-104: the newest cash flow linked to the log is written back on it
AddLogBackLink ==
    /\ call.pc = "cashed"
    /\ LET cash_id == MaxLinkedCashId(db["cash_flow"], call.log_id) IN
       db' = IF cash_id # NULL
             THEN [db EXCEPT !["investment_log"] =
                     { IF l.id = call.log_id THEN [l EXCEPT !.cashflow_link_id = cash_id]
                       ELSE l : l \in @ }]
             ELSE db
    /\ call' = [call EXCEPT !.pc = "linked"]
    /\ UNCHANGED <<pass, snap, nops, boots>>

\* lines 105-106: update_holdings, then the call returns log_id
AddLogReturn ==
    /\ \/ call.pc = "linked"
       \/ call.pc = "logged" /\ ~WantsCashFlow
    /\ db' = update_holdings(db)
    /\ call' = [call EXCEPT !.pc = "returned"]
    /\ UNCHANGED <<pass, snap, nops, boots>>

\* the script stops between two commits of add_investment_log; what was
\* committed stays
Crash ==
    /\ call.pc \in {"logged", "cashed", "linked"}
    /\ call' = IdleCall
    /\ UNCHANGED <<db, pass, snap, nops, boots>>

-----------------------------------------------------------------------------
(* Spec: master data maintenance and the startup pass of the web application *)

\* the tables the requests address: one whose name column is unique, and
\* dim_category, whose name column is not
OpTables == {"dim_account", "dim_category"}

\* the names a request carries: the table's first default, or a custom name
OpNames(table) == { MASTER_DEFAULTS[table][1], CustomName }

\* the ids a request carries: the first row, the newest row, an absent row
OpIds(rows) == IF rows = {} THEN {1} ELSE {1, MaxOf({r.id : r \in rows}), NextId(rows)}

\* the ids a payload's foreign key carries: the first row or the newest row
FkIds(rows) == IF rows = {} THEN {1} ELSE {1, MaxOf({r.id : r \in rows})}

Init ==
    /\ db = EmptyDb
    /\ pass = [pc |-> "stopped", ti |-> 1, ids |-> <<>>, kept |-> {}, del |-> {},
               names |-> <<>>, rerun |-> FALSE]
    /\ snap = EmptyDb
    /\ nops = 0
    /\ boots = 0
    /\ call = IdleCall

Next ==
    \/ init_db
    \/ PassMerge
    \/ PassCommit
    \/ PassInsert
    \/ PassNextTable
    \/ \E table \in OpTables : \E name \in OpNames(table) :
          create_master_data(table, name)
    \/ \E table \in OpTables : \E row_id \in OpIds(db[table]) :
          \E status \in {"active", "inactive"} :
             toggle_master_status(table, row_id, status)
    \/ \E table \in OpTables : \E row_id \in OpIds(db[table]) :
          soft_delete_master(table, row_id)
    \/ \E table \in OpTables : \E row_id \in OpIds(db[table]) :
          \E name \in OpNames(table) \cup {NoName} :
             \E status \in {NoStatus, "active", "inactive"} :
                update_master_data(table, row_id, name, status)
    \/ \E c \in FkIds(db["dim_category"]) \cup {NULL} :
          create_cash_flow([date |-> <<2024, 2, 1>>, account_id |-> 1, category_id |-> c,
                            flow_type |-> "shouru", amount |-> 100,
                            source_type_id |-> NULL, link_investment_id |-> NULL])
    \/ \E a \in {NULL, 1} :
          create_investment([date |-> <<2024, 2, 1>>, product_id |-> 1, action_id |-> 1,
                             amount |-> 100, channel_account_id |-> a])

Spec == Init /\ [][Next]_vars

-----------------------------------------------------------------------------
(* RecSpec: the recording requests of the web application, served on the     *)
(* database the first start leaves                                           *)

\* the database after init_db has run once on a new file: every default of
\* MASTER_DEFAULTS, ids in list order, status active
SeededDb ==
    [ t \in MasterTables \cup TxTables |->
        IF t \in MasterTables
        THEN { [id |-> i, name |-> MASTER_DEFAULTS[t][i], status |-> "active"] :
                 i \in 1..Len(MASTER_DEFAULTS[t]) }
        ELSE {} ]

\* the amounts a payload carries: `amount: float`, no bound declared
PayloadAmounts == {-5, 100}

\* the dates a payload carries, <<year, month, day>>: the later date sorts
\* first when months are compared as numbers
PayloadDates == { <<2024, 10, 2>>, <<2023, 12, 31>> }

\* CashFlowCreate payloads: flow_type is one of the two strings the pattern
\* admits (收入 "shouru", 支出 "zhichu")
CashFlowPayloads ==
    [ date : PayloadDates, account_id : {1}, category_id : {NULL},
      flow_type : {"shouru", "zhichu"}, amount : PayloadAmounts,
      source_type_id : {NULL}, link_investment_id : {NULL, 1} ]

\* InvestmentLogCreate payloads as the router builds them
InvestmentPayloads ==
    [ date : PayloadDates, product_id : {1}, action_id : FkIds(db["dim_action_type"]),
      amount : PayloadAmounts, channel_account_id : {NULL} ]

\* a user-added action type whose name is in the buy set only after lower()
RecActionNames == { <<"b", "U", "Y">> }

\* the store after create_investment and then create_cash_flow with
\* link_investment_id = 1, both dated 2024-02-01: a log and the cash flow that
\* points at it
LinkedDb ==
    [ SeededDb EXCEPT
        !["investment_log"] =
           { [id |-> 1, date |-> <<2024, 2, 1>>, product_id |-> 1, action_id |-> 1,
              amount |-> 100, channel_account_id |-> NULL, status |-> "active",
              cashflow_link_id |-> NULL] },
        !["cash_flow"] =
           { [id |-> 1, date |-> <<2024, 2, 1>>, account_id |-> 1, category_id |-> NULL,
              flow_type |-> "zhichu", amount |-> 100, source_type_id |-> NULL,
              status |-> "active", link_investment_id |-> 1] } ]

RecInit ==
    /\ db \in {SeededDb, LinkedDb}
    /\ pass = [pc |-> "idle", ti |-> 1, ids |-> <<>>, kept |-> {}, del |-> {},
               names |-> <<>>, rerun |-> FALSE]
    /\ snap = EmptyDb
    /\ nops = 0
    /\ boots = 1
    /\ call = IdleCall

RecNext ==
    \/ \E payload \in CashFlowPayloads : create_cash_flow(payload)
    \/ \E record_id \in OpIds(db["cash_flow"]) : \E payload \in CashFlowPayloads :
          update_cash_flow(record_id, payload)
    \/ \E record_id \in OpIds(db["cash_flow"]) : soft_delete_cashflow(record_id)
    \/ \E payload \in InvestmentPayloads : create_investment(payload)
    \/ \E record_id \in OpIds(db["investment_log"]) : \E payload \in InvestmentPayloads :
          update_investment(record_id, payload)
    \/ \E record_id \in OpIds(db["investment_log"]) : soft_delete_investment(record_id)
    \/ \E name \in RecActionNames : create_master_data("dim_action_type", name)

RecSpec == RecInit /\ [][RecNext]_vars

-----------------------------------------------------------------------------
(* DashSpec: the dashboard script on a new database file *)

\* the action names a user adds on the master data page: buy, 申购, 转换
DashActionNames ==
    { <<"b", "u", "y">>, <<"shen1", "gou4">>, <<"zhuan3", "huan4">> }

\* amount and channel_id of the add_investment_log calls: 100 without a
\* channel, 250 through account 2
DashLogInputs ==
    { [amount |-> 100, channel_id |-> NULL], [amount |-> 250, channel_id |-> 2] }

DashInit ==
    /\ db = DashEmptyDb
    /\ pass = [pc |-> "stopped", ti |-> 1, ids |-> <<>>, kept |-> {}, del |-> {},
               names |-> <<>>, rerun |-> FALSE]
    /\ snap = EmptyDb
    /\ nops = 0
    /\ boots = 0
    /\ call = IdleCall

DashNext ==
    \/ create_tables
    \/ \E new_name \in DashActionNames : AddToMaster("dim_action_type", new_name)
    \/ \E link_investment_id \in {NULL, 1} :
          AddCashFlow(<<2024, 2, 1>>, 1, NULL, "shouru", 100, NULL, <<>>, link_investment_id)
    \/ \E action_id \in FkIds(db["dim_action_type"]) : \E in \in DashLogInputs :
          \E link_cashflow \in BOOLEAN :
             AddLogInsert(<<2024, 2, 1>>, 1, action_id, in.amount, in.channel_id, link_cashflow)
    \/ AddLogCashFlow
    \/ AddLogBackLink
    \/ AddLogReturn
    \/ Crash

DashSpec == DashInit /\ [][DashNext]_vars

-----------------------------------------------------------------------------
(* Properties of the startup pass *)

Ids(rows) == { r.id : r \in rows }
Named(d, table, name) == { r \in d[table] : r.name = name }
DefaultNames(table) == SeqToSet(MASTER_DEFAULTS[table])

\* in d, some foreign key column to `table` holds `id`
Referenced(d, table, id) ==
    \E m \in ForeignKeys(table) : \E r \in d[m[1]] : r[m[2]] = id

\* Of the rows that carried `name` when the pass began, one is left, and every
\* foreign key that held the id of another one now holds the id of that row.
MergedInto(table, name) ==
    /\ Cardinality(Named(db, table, name)) = 1
    /\ LET survivor == CHOOSE r \in Named(db, table, name) : TRUE
           removed == Ids(Named(snap, table, name)) \ {survivor.id} IN
       \A m \in ForeignKeys(table) : \A r0 \in snap[m[1]] :
          r0[m[2]] \in removed =>
             \E r \in db[m[1]] : r.id = r0.id /\ r[m[2]] = survivor.id

C2_RerunChangesNothing == pass.rerun => db = snap

\* a second consecutive pass has completed, after requests were served and an
\* earlier pass merged a duplicate
C2_Witness ==
    /\ pass.rerun /\ pass.pc = "idle" /\ nops >= 2 /\ boots >= 3
    /\ NextId(db["dim_category"]) = Cardinality(db["dim_category"]) + 1

\* C4: after the startup pass, for each default name that some row carried
\* before the pass, the one row left with that name is the lowest-id row that
\* carried it, and its status is active.
C4_LowestIdSurvivesActive ==
    pass.pc = "idle" =>
        \A table \in MasterTables : \A name \in DefaultNames(table) :
            Named(snap, table, name) # {} =>
                \E r \in db[table] :
                    /\ Named(db, table, name) = {r}
                    /\ r.id = MinOf(Ids(Named(snap, table, name)))
                    /\ r.status = "active"

\* a pass has completed on a table where a default name had two rows, the
\* lowest-id one inactive
C4_Witness ==
    /\ pass.pc = "idle"
    /\ \E table \in MasterTables : \E name \in DefaultNames(table) :
          /\ Cardinality(Named(snap, table, name)) >= 2
          /\ \E r \in Named(snap, table, name) :
                r.id = MinOf(Ids(Named(snap, table, name))) /\ r.status = "inactive"

\* C5: no step (create, rename/update, setStatus, soft delete, or a commit of
\* the startup pass) removes a dimension row whose id a transactional foreign
\* key holds, either in the committed state before the step or in the one
\* after it.
C5_NoReferencedRowRemoved ==
    [][ \A table \in MasterTables : \A r \in db[table] :
            r.id \notin Ids(db'[table]) =>
                ~Referenced(db, table, r.id) /\ ~Referenced(db', table, r.id) ]_vars

\* the running pass has deleted a row that a transactional row referenced when
\* the pass began
C5_Witness ==
    /\ pass.pc \in {"scan", "insert"}
    /\ \E table \in MasterTables : \E r \in snap[table] :
          r.id \notin Ids(db[table]) /\ Referenced(snap, table, r.id)


-----------------------------------------------------------------------------
(* Properties of the recording requests *)

\* the first start on a new database file leaves SeededDb
FirstStartSeeds == (pass.pc = "idle" /\ boots = 1 /\ nops = 0) => db = SeededDb

\* C6: in every state reachable through the recording operations, no two
\* cash-flow rows hold the same non-null link_investment_id and no two
\* investment-log rows hold the same non-null cashflow_link_id.
C6_LinkOneToOne ==
    /\ \A a, b \in db["cash_flow"] :
          (a.link_investment_id # NULL /\ a.link_investment_id = b.link_investment_id)
             => a.id = b.id
    /\ \A a, b \in db["investment_log"] :
          (a.cashflow_link_id # NULL /\ a.cashflow_link_id = b.cashflow_link_id)
             => a.id = b.id

\* C10: after any sequence of create and update operations on cash flows and
\* investment logs, every stored amount is non-negative.
C10_AmountsNonNegative ==
    /\ \A r \in db["cash_flow"] : r.amount >= 0
    /\ \A r \in db["investment_log"] : r.amount >= 0

-----------------------------------------------------------------------------
(* Properties of the dashboard script *)

UpperLetters ==
    << "A", "B", "C", "D", "E", "F", "G", "H", "I", "J", "K", "L", "M",
       "N", "O", "P", "Q", "R", "S", "T", "U", "V", "W", "X", "Y", "Z" >>
LowerLetters ==
    << "a", "b", "c", "d", "e", "f", "g", "h", "i", "j", "k", "l", "m",
       "n", "o", "p", "q", "r", "s", "t", "u", "v", "w", "x", "y", "z" >>

\* variant: the name as it is, no case folding
LowerVerbatim(name) == name

\* str.lower(), character by character
Lower(name) ==
    [ i \in DOMAIN name |->
        IF \E k \in DOMAIN UpperLetters : UpperLetters[k] = name[i]
        THEN LowerLetters[CHOOSE k \in DOMAIN UpperLetters : UpperLetters[k] = name[i]]
        ELSE name[i] ]

BUY_ACTION_TYPES ==
    { <<"mai3", "ru4">>,                                  \* 买入
      <<"shen1", "gou4">>,                                \* 申购
      <<"jia1", "cang1">>,                                \* 加仓
      <<"gou4", "mai3">>,                                 \* 购买
      <<"b", "u", "y">>, <<"B", "u", "y">>, <<"B", "U", "Y">>,
      <<"p", "u", "r", "c", "h", "a", "s", "e">>,
      <<"P", "u", "r", "c", "h", "a", "s", "e">>,
      <<"P", "U", "R", "C", "H", "A", "S", "E">> }

BUY_ACTION_TYPES_LOWER == { Lower(name) : name \in BUY_ACTION_TYPES }

\* the cash flows inserted since the call in `call` began
NewCashFlows == { c \in db["cash_flow"] : c.id \notin call.cash_before }

\* the cash flow was generated by add_investment_log (its remark says so)
Generated(c) ==
    /\ Len(c.remark) >= Len(AutoRemarkPrefix)
    /\ SubSeq(c.remark, 1, Len(AutoRemarkPrefix)) = AutoRemarkPrefix

\* C3: repeated initialization of the dashboard database adds no row to a
\* dimension table after the first call: no default name is stored twice in a
\* table (dim_category included).
C3_DashSeedIdempotent ==
    \A table \in DashMasterTables : \A name \in SeqToSet(master_defaults[table]) :
        Cardinality({ r \in db[table] : r.name = name }) <= 1

\* C7: when add_investment_log returns from a call with auto-link requested
\* whose action name is in the program's buy set (买入, 申购, 加仓, 购买, buy,
\* purchase, case-insensitive), the call has created exactly one cash flow, of
\* flow type expense, with the log's amount and link_investment_id the log's
\* id, and the log's cashflow_link_id is that cash flow's id.
C7_BuySetAutoLink ==
    ( /\ call.pc = "returned"
      /\ call.link_cashflow
      /\ Lower(_get_action_name(db, call.action_id)) \in BUY_ACTION_TYPES_LOWER )
    => /\ Cardinality(NewCashFlows) = 1
       /\ \A c \in NewCashFlows :
             /\ c.flow_type = "zhichu"
             /\ c.amount = call.amount
             /\ c.link_investment_id = call.log_id
             /\ Row(db["investment_log"], call.log_id).cashflow_link_id = c.id

\* C8: when add_investment_log returns from a call with auto-link requested
\* whose action name contains no buy keyword and no redeem/dividend keyword,
\* the investment log is stored, no cash flow was created, and the log's
\* cashflow_link_id is null.
C8_NoMatchNoCashFlow ==
    ( /\ call.pc = "returned"
      /\ call.link_cashflow
      /\ \A keyword \in BUY_KEYWORDS \cup INCOME_KEYWORDS :
            ~Contains(_get_action_name(db, call.action_id), keyword) )
    => /\ Has(db["investment_log"], call.log_id)
       /\ NewCashFlows = {}
       /\ Row(db["investment_log"], call.log_id).cashflow_link_id = NULL

\* a call with auto-link requested has returned for an action a user added
\* whose name matches neither keyword set
C8_Witness ==
    /\ call.pc = "returned"
    /\ call.link_cashflow
    /\ _get_action_name(db, call.action_id) \in DashActionNames
    /\ \A keyword \in BUY_KEYWORDS \cup INCOME_KEYWORDS :
          ~Contains(_get_action_name(db, call.action_id), keyword)

\* C9: in every state, between any two commits of add_investment_log and after
\* a stop between them, every investment log with a non-null cashflow_link_id
\* points to an existing cash flow whose link_investment_id is that log; and
\* for a generated cash flow the only inconsistency is that its investment log
\* (which exists) has no backward link yet.
C9_BackLinkConsistent ==
    /\ \A l \in db["investment_log"] :
          l.cashflow_link_id # NULL =>
             \E c \in db["cash_flow"] :
                c.id = l.cashflow_link_id /\ c.link_investment_id = l.id
    /\ \A c \in db["cash_flow"] :
          Generated(c) =>
             \E l \in db["investment_log"] :
                l.id = c.link_investment_id /\ l.cashflow_link_id \in {NULL, c.id}

\* the script stopped between the commit of the generated cash flow and the
\* write of the backward link: the cash flow points to a log without one
C9_Witness ==
    /\ call.pc = "idle"
    /\ \E c \in db["cash_flow"] :
          /\ Generated(c)
          /\ \E l \in db["investment_log"] :
                l.id = c.link_investment_id /\ l.cashflow_link_id = NULL

-----------------------------------------------------------------------------
(* crud.py: analytics *)

\* 收入 "shouru" and its Latin spellings
INCOME_TYPES == {"shouru", "income", "Income", "INCOME"}
\* 支出 "zhichu" and its Latin spellings
EXPENSE_TYPES == {"zhichu", "expense", "Expense", "EXPENSE"}

\* variant: a filter that lets every status through
_is_active_any(status) == TRUE

\* or_(column == "active", column.is_(None), column == "")
_is_active(status) == status \in {"active", NoStatus, ""}

\* three SELECT coalesce(sum(amount), 0), then net_cash from the first two
analytics_summary(d) ==
    LET income == SumOf({ <<c.id, c.amount>> :
                            c \in { x \in d["cash_flow"] :
                                      x.flow_type \in INCOME_TYPES /\ _is_active(x.status) } })
        expense == SumOf({ <<c.id, c.amount>> :
                             c \in { x \in d["cash_flow"] :
                                       x.flow_type \in EXPENSE_TYPES /\ _is_active(x.status) } })
        investment == SumOf({ <<l.id, l.amount>> :
                                l \in { x \in d["investment_log"] : _is_active(x.status) } })
    IN [ total_income |-> income, total_expense |-> expense,
         total_invested |-> investment, net_cash |-> income - expense ]

\* the rows of a table that count: status 'active', NULL or empty
Counted(rows) == { r \in rows : r.status \in {"active", NoStatus, ""} }

\* C11: the summary's net_cash is total_income minus total_expense, each total
\* is the sum of the amounts of the counted rows only (income rows, expense
\* rows, investment logs), and with no row at all the four fields are 0
C11_SummaryTotals ==
    LET s == analytics_summary(db)
        cash == Counted(db["cash_flow"])
        logs == Counted(db["investment_log"])
    IN /\ s.total_income =
            SumOf({ <<c.id, c.amount>> : c \in { x \in cash : x.flow_type \in INCOME_TYPES } })
       /\ s.total_expense =
            SumOf({ <<c.id, c.amount>> : c \in { x \in cash : x.flow_type \in EXPENSE_TYPES } })
       /\ s.total_invested = SumOf({ <<l.id, l.amount>> : l \in logs })
       /\ s.net_cash = s.total_income - s.total_expense
       /\ (db["cash_flow"] = {} /\ db["investment_log"] = {}) =>
             s = [ total_income |-> 0, total_expense |-> 0,
                   total_invested |-> 0, net_cash |-> 0 ]

\* C11 witness: an income row was recorded with a non-zero amount and then
\* soft-deleted, and the summary no longer counts it
C11_Witness ==
    /\ \E c \in db["cash_flow"] :
          c.flow_type \in INCOME_TYPES /\ c.status = "inactive" /\ c.amount # 0
    /\ analytics_summary(db).total_income = 0
    /\ analytics_summary(db).net_cash = 0

\* the code points of the characters of the model's strings: the Chinese
\* characters behind the pinyin tokens, '+', '-' and the full-width colon
OtherCodePoints ==
    ("xian4" :> 29616) @@ ("jin1" :> 37329) @@ ("zhang4" :> 36134) @@ ("hu4" :> 25143) @@
    ("yin2" :> 38134) @@ ("hang2" :> 34892) @@ ("ka3" :> 21345) @@ ("zheng4" :> 35777) @@
    ("quan4" :> 21048) @@ ("gong1" :> 24037) @@ ("zi1" :> 36164) @@ ("shou1" :> 25910) @@
    ("ru4" :> 20837) @@ ("sheng1" :> 29983) @@ ("huo2" :> 27963) @@ ("zhi1" :> 25903) @@
    ("chu1" :> 20986) @@ ("tou2" :> 25237) @@ ("zhuan3" :> 36716) @@ ("hui2" :> 22238) @@
    ("liu2" :> 27969) @@ ("huo4" :> 36135) @@ ("bi4" :> 24065) @@ ("ji1" :> 22522) @@
    ("gu3" :> 32929) @@ ("piao4" :> 31080) @@ ("zhai4" :> 20538) @@ ("di1" :> 20302) @@
    ("zhong1" :> 20013) @@ ("gao1" :> 39640) @@ ("mai3" :> 20080) @@ ("shu2" :> 36174) @@
    ("fen1" :> 20998) @@ ("hong2" :> 32418) @@ ("li3" :> 29702) @@ ("cai2" :> 36130) @@
    ("qi2" :> 20854) @@ ("ta1" :> 20182) @@ ("jing4" :> 20928) @@ ("zhi2" :> 20540) @@
    ("yi4" :> 30410) @@ ("lv4" :> 29575) @@ ("bo1" :> 27874) @@ ("dong4" :> 21160) @@
    ("tian1" :> 22825) @@ ("shen1" :> 30003) @@ ("gou4" :> 36141) @@ ("jia1" :> 21152) @@
    ("cang1" :> 20179) @@ ("kuan3" :> 27454) @@ ("pai4" :> 27966) @@ ("xi1" :> 24687) @@
    ("mai4" :> 21334) @@ ("huan4" :> 25442) @@ ("cao1" :> 25805) @@ ("zuo4" :> 20316) @@
    ("mo4" :> 40664) @@ ("ren4" :> 35748) @@ ("+" :> 43) @@ ("-" :> 45) @@
    (":" :> 65306)

Digits == << "0", "1", "2", "3", "4", "5", "6", "7", "8", "9" >>

\* ord(c)
CodePoint(c) ==
    IF \E k \in DOMAIN UpperLetters : UpperLetters[k] = c
    THEN 64 + (CHOOSE k \in DOMAIN UpperLetters : UpperLetters[k] = c)
    ELSE IF \E k \in DOMAIN LowerLetters : LowerLetters[k] = c
    THEN 96 + (CHOOSE k \in DOMAIN LowerLetters : LowerLetters[k] = c)
    ELSE IF \E k \in DOMAIN Digits : Digits[k] = c
    THEN 47 + (CHOOSE k \in DOMAIN Digits : Digits[k] = c)
    ELSE OtherCodePoints[c]

\* a < b on two strings: Python's str comparison and SQLite's BINARY
\* collation, code point by code point, a proper prefix first
StrLess(a, b) ==
    \E i \in 1..(Len(a) + 1) :
        /\ i <= Len(b)
        /\ \A j \in 1..(i - 1) : a[j] = b[j]
        /\ (i = Len(a) + 1 \/ CodePoint(a[i]) < CodePoint(b[i]))

\* strftime("%Y-%m", date) of a date <<year, month, day>>
strftime_Y_m(date) ==
    << Digits[((date[1] \div 1000) % 10) + 1], Digits[((date[1] \div 100) % 10) + 1],
       Digits[((date[1] \div 10) % 10) + 1], Digits[(date[1] % 10) + 1], "-",
       Digits[(date[2] \div 10) + 1], Digits[(date[2] % 10) + 1] >>

RECURSIVE sorted_reverse(_)
\* variant: sorted(..., reverse=True)
sorted_reverse(S) ==
    IF S = {} THEN <<>>
    ELSE LET x == CHOOSE x \in S : \A y \in S \ {x} : StrLess(y, x)
         IN <<x>> \o sorted_reverse(S \ {x})

RECURSIVE sorted(_)
\* sorted(set of strings)
sorted(S) ==
    IF S = {} THEN <<>>
    ELSE LET x == CHOOSE x \in S : \A y \in S \ {x} : StrLess(x, y)
         IN <<x>> \o sorted(S \ {x})

\* investment / income as the fraction <<numerator, denominator>>
Ratio(invested, income) == IF income # 0 THEN <<invested, income>> ELSE <<0, 1>>

\* three grouped SELECTs keyed by month, then one entry per month of
\* sorted(all months) with a running total of net_cash
monthly_cashflow(d) ==
    LET incomeRows == { x \in d["cash_flow"] :
                          x.flow_type \in INCOME_TYPES /\ _is_active(x.status) }
        expenseRows == { x \in d["cash_flow"] :
                           x.flow_type \in EXPENSE_TYPES /\ _is_active(x.status) }
        investRows == { x \in d["investment_log"] :
                          /\ _is_active(x.status)
                          /\ \E a \in d["dim_action_type"] :
                                /\ a.id = x.action_id
                                /\ \/ a.name \in BUY_ACTION_TYPES
                                   \/ Lower(a.name) \in BUY_ACTION_TYPES_LOWER }
        income_map(month) ==
            SumOf({ <<c.id, c.amount>> :
                      c \in { x \in incomeRows : strftime_Y_m(x.date) = month } })
        expense_map(month) ==
            SumOf({ <<c.id, c.amount>> :
                      c \in { x \in expenseRows : strftime_Y_m(x.date) = month } })
        invest_map(month) ==
            SumOf({ <<l.id, IF l.amount > 0 THEN l.amount ELSE 0>> :
                      l \in { x \in investRows : strftime_Y_m(x.date) = month } })
        all_months == sorted({ strftime_Y_m(x.date) : x \in incomeRows }
                             \cup { strftime_Y_m(x.date) : x \in expenseRows }
                             \cup { strftime_Y_m(x.date) : x \in investRows })
        net_cash(k) == income_map(all_months[k]) - expense_map(all_months[k])
        running_net[k \in 0..Len(all_months)] ==
            IF k = 0 THEN 0 ELSE running_net[k - 1] + net_cash(k)
    IN [ k \in 1..Len(all_months) |->
           [ month |-> all_months[k],
             income |-> income_map(all_months[k]),
             expense |-> expense_map(all_months[k]),
             investment |-> invest_map(all_months[k]),
             investment_ratio |-> Ratio(invest_map(all_months[k]), income_map(all_months[k])),
             net_cash |-> net_cash(k),
             cumulative_net_cash |-> running_net[k] ] ]

\* the calendar position of a 'YYYY-MM' string: 12 * year + month
MonthNumber(month) ==
    LET v(i) == CodePoint(month[i]) - 48
    IN 12 * (1000 * v(1) + 100 * v(2) + 10 * v(3) + v(4)) + 10 * v(6) + v(7)

\* C12: the entries of monthly_cashflow come in strictly ascending month
\* order, and at every position k cumulative_net_cash is the sum of net_cash
\* over the entries 1..k
C12_MonthsAscendingCumulative ==
    LET res == monthly_cashflow(db)
    IN /\ \A k \in 1..(Len(res) - 1) :
             MonthNumber(res[k].month) < MonthNumber(res[k + 1].month)
       /\ \A k \in DOMAIN res :
             res[k].cumulative_net_cash = SumOf({ <<j, res[j].net_cash>> : j \in 1..k })

\* C12 witness: three months with non-zero net cash, a later month recorded
\* before an earlier one
C12_Witness ==
    LET res == monthly_cashflow(db)
    IN /\ Len(res) = 3
       /\ \A k \in 1..3 : res[k].net_cash # 0
       /\ \E c1, c2 \in db["cash_flow"] :
             /\ c1.id < c2.id /\ c1.status = "active" /\ c2.status = "active"
             /\ strftime_Y_m(c1.date) = res[2].month
             /\ strftime_Y_m(c2.date) = res[1].month

\* C13: in every entry of monthly_cashflow, investment_ratio is investment
\* divided by income when income is greater than 0, and is 0 otherwise
C13_RatioZeroUnlessIncomePositive ==
    \A k \in DOMAIN monthly_cashflow(db) :
        LET entry == monthly_cashflow(db)[k]
        IN IF entry.income > 0
           THEN entry.investment_ratio = <<entry.investment, entry.income>>
           ELSE entry.investment_ratio[1] = 0

\* two names that differ at most in the case of their letters
EqualsIgnoreCase(a, b) ==
    /\ Len(a) = Len(b)
    /\ \A i \in DOMAIN a :
          \/ a[i] = b[i]
          \/ \E k \in DOMAIN UpperLetters :
                {a[i], b[i]} = {UpperLetters[k], LowerLetters[k]}

\* the investment logs of month that the claim counts: not inactive, amount
\* positive, action named like a member of the buy set whatever the case
BuyLogsOf(month) ==
    { l \in db["investment_log"] :
        /\ strftime_Y_m(l.date) = month
        /\ l.status \in {"active", NoStatus, ""}
        /\ l.amount > 0
        /\ \E a \in db["dim_action_type"] :
              /\ a.id = l.action_id
              /\ \E b \in BUY_ACTION_TYPES : EqualsIgnoreCase(a.name, b) }

\* C14: the investment value of every month entry is the sum of the amounts
\* of the active, positive, buy-like investment logs of that month (every
\* other log contributes 0), and a month with such a log has an entry
C14_InvestmentCountsBuyLogs ==
    LET res == monthly_cashflow(db)
    IN /\ \A k \in DOMAIN res :
             res[k].investment =
                SumOf({ <<l.id, l.amount>> : l \in BuyLogsOf(res[k].month) })
       /\ \A l \in db["investment_log"] :
             BuyLogsOf(strftime_Y_m(l.date)) # {} =>
                \E k \in DOMAIN res : res[k].month = strftime_Y_m(l.date)

\* C14 witness: a positive active log whose action is named bUY, counted in
\* its month
C14_Witness ==
    \E l \in db["investment_log"] :
        /\ l.status = "active" /\ l.amount > 0
        /\ \E a \in db["dim_action_type"] :
              a.id = l.action_id /\ a.name \notin BUY_ACTION_TYPES
        /\ \E k \in DOMAIN monthly_cashflow(db) :
              /\ monthly_cashflow(db)[k].month = strftime_Y_m(l.date)
              /\ monthly_cashflow(db)[k].investment = l.amount

\* a < b on two dates <<year, month, day>>
DateLess(a, b) ==
    \/ a[1] < b[1]
    \/ a[1] = b[1] /\ (a[2] < b[2] \/ (a[2] = b[2] /\ a[3] < b[3]))

RECURSIVE OrderDateIdDesc(_)
\* ORDER BY date DESC, id DESC
OrderDateIdDesc(rows) ==
    IF rows = {} THEN <<>>
    ELSE LET r == CHOOSE r \in rows :
                     \A o \in rows \ {r} :
                         DateLess(o.date, r.date) \/ (o.date = r.date /\ o.id < r.id)
         IN <<r>> \o OrderDateIdDesc(rows \ {r})

list_cash_flows(d, include_inactive) ==
    OrderDateIdDesc({ r \in d["cash_flow"] : include_inactive \/ r.status = "active" })

list_investments(d, include_inactive) ==
    OrderDateIdDesc({ r \in d["investment_log"] : include_inactive \/ r.status = "active" })

\* C15: soft-deleting an active cash flow or investment log changes the
\* summary by that row's contribution only: an income row lowers total_income
\* and net_cash by its amount, an expense row lowers total_expense and raises
\* net_cash by its amount, a log lowers total_invested by its amount, every
\* other field stays; and the row is no longer in the default listing
C15_SoftDeleteContribution ==
    [][ /\ \A record_id \in Ids(db["cash_flow"]) :
            LET r == Row(db["cash_flow"], record_id)
                s == analytics_summary(db)
            IN (r.status = "active" /\ soft_delete_cashflow(record_id)) =>
                 /\ analytics_summary(db') =
                      IF r.flow_type \in INCOME_TYPES
                      THEN [s EXCEPT !.total_income = @ - r.amount,
                                     !.net_cash = @ - r.amount]
                      ELSE IF r.flow_type \in EXPENSE_TYPES
                      THEN [s EXCEPT !.total_expense = @ - r.amount,
                                     !.net_cash = @ + r.amount]
                      ELSE s
                 /\ record_id \in { x.id : x \in SeqToSet(list_cash_flows(db, FALSE)) }
                 /\ record_id \notin { x.id : x \in SeqToSet(list_cash_flows(db', FALSE)) }
        /\ \A record_id \in Ids(db["investment_log"]) :
            LET r == Row(db["investment_log"], record_id)
                s == analytics_summary(db)
            IN (r.status = "active" /\ soft_delete_investment(record_id)) =>
                 /\ analytics_summary(db') = [s EXCEPT !.total_invested = @ - r.amount]
                 /\ record_id \in { x.id : x \in SeqToSet(list_investments(db, FALSE)) }
                 /\ record_id \notin { x.id : x \in SeqToSet(list_investments(db', FALSE)) }
      ]_vars

\* C15 witness: an expense row with a non-zero amount has been soft-deleted;
\* the summary's total_expense is back to 0 and the default listing is empty
C15_Witness ==
    /\ \E c \in db["cash_flow"] :
          c.flow_type \in EXPENSE_TYPES /\ c.status = "inactive" /\ c.amount # 0
    /\ analytics_summary(db).total_expense = 0
    /\ list_cash_flows(db, FALSE) = <<>>
    /\ Len(list_cash_flows(db, TRUE)) = 1

\* None, the result of Session.get for an id that is not stored
NoRow == [id |-> NULL]

\* the value soft_delete_cashflow returns: None, or the refreshed row
soft_delete_cashflow_returns(record_id) ==
    IF ~Has(db["cash_flow"], record_id) THEN NoRow
    ELSE [Row(db["cash_flow"], record_id) EXCEPT !.status = "inactive"]

\* the value soft_delete_investment returns: None, or the refreshed row
soft_delete_investment_returns(record_id) ==
    IF ~Has(db["investment_log"], record_id) THEN NoRow
    ELSE [Row(db["investment_log"], record_id) EXCEPT !.status = "inactive"]

\* a step that changed, in table, the status of row record_id to status and
\* nothing else: same ids, every other row as it was, every other column of
\* the row as it was, every other table as it was
OnlyStatusSet(table, record_id, status) ==
    /\ \A t \in DOMAIN db : t # table => db'[t] = db[t]
    /\ Ids(db'[table]) = Ids(db[table])
    /\ \A x \in db[table] : x.id # record_id => x \in db'[table]
    /\ Row(db'[table], record_id).status = status
    /\ [Row(db'[table], record_id) EXCEPT !.status = Row(db[table], record_id).status]
          = Row(db[table], record_id)

\* C16: a soft delete of a stored id sets that row's status to 'inactive' and
\* changes no other column, no other row and no row of another table (the
\* linked row included); a soft delete of an absent id returns None and
\* changes nothing
C16_SoftDeleteFrame ==
    [][ /\ \A record_id \in 1..NextId(db["cash_flow"]) :
            soft_delete_cashflow(record_id) =>
               IF Has(db["cash_flow"], record_id)
               THEN OnlyStatusSet("cash_flow", record_id, "inactive")
               ELSE soft_delete_cashflow_returns(record_id) = NoRow /\ db' = db
        /\ \A record_id \in 1..NextId(db["investment_log"]) :
            soft_delete_investment(record_id) =>
               IF Has(db["investment_log"], record_id)
               THEN OnlyStatusSet("investment_log", record_id, "inactive")
               ELSE soft_delete_investment_returns(record_id) = NoRow /\ db' = db
      ]_vars

\* C16 witness: the log has been soft-deleted and the cash flow linked to it
\* is still active
C16_Witness ==
    \E l \in db["investment_log"] :
        /\ l.status = "inactive"
        /\ \E c \in db["cash_flow"] :
              c.link_investment_id = l.id /\ c.status = "active"

\* the value update_cash_flow returns: None, or the refreshed row
update_cash_flow_returns(record_id, payload) ==
    IF ~Has(db["cash_flow"], record_id) THEN NoRow
    ELSE [Row(db["cash_flow"], record_id) EXCEPT
            !.date = payload.date, !.account_id = payload.account_id,
            !.category_id = payload.category_id, !.flow_type = payload.flow_type,
            !.amount = payload.amount, !.source_type_id = payload.source_type_id,
            !.link_investment_id = payload.link_investment_id]

\* the value update_investment returns: None, or the refreshed row
update_investment_returns(record_id, payload) ==
    IF ~Has(db["investment_log"], record_id) THEN NoRow
    ELSE [Row(db["investment_log"], record_id) EXCEPT
            !.date = payload.date, !.product_id = payload.product_id,
            !.action_id = payload.action_id, !.amount = payload.amount,
            !.channel_account_id = payload.channel_account_id]

\* a step that left the status of every row of every table as it was
StatusKept ==
    \A t \in DOMAIN db :
        /\ Ids(db'[t]) = Ids(db[t])
        /\ \A x \in db[t] : Row(db'[t], x.id).status = x.status

\* the payload that an update wrote into a row: the payload's fields, read back
CashFlowPayloadOf(row) ==
    [ date |-> row.date, account_id |-> row.account_id, category_id |-> row.category_id,
      flow_type |-> row.flow_type, amount |-> row.amount,
      source_type_id |-> row.source_type_id, link_investment_id |-> row.link_investment_id ]

InvestmentPayloadOf(row) ==
    [ date |-> row.date, product_id |-> row.product_id, action_id |-> row.action_id,
      amount |-> row.amount, channel_account_id |-> row.channel_account_id ]

\* C17: update_cash_flow and update_investment change the status of no row
\* (an inactive row stays inactive whatever the payload); for an absent id
\* they return None and leave the store as it was
C17_UpdateKeepsStatus ==
    [][ /\ \A record_id \in Ids(db["cash_flow"]) \cap Ids(db'["cash_flow"]) :
            update_cash_flow(record_id, CashFlowPayloadOf(Row(db'["cash_flow"], record_id)))
               => StatusKept
        /\ \A payload \in CashFlowPayloads :
            update_cash_flow(NextId(db["cash_flow"]), payload) =>
               /\ update_cash_flow_returns(NextId(db["cash_flow"]), payload) = NoRow
               /\ db' = db
        /\ \A record_id \in Ids(db["investment_log"]) \cap Ids(db'["investment_log"]) :
            update_investment(record_id, InvestmentPayloadOf(Row(db'["investment_log"], record_id)))
               => StatusKept
        /\ \A payload \in InvestmentPayloads :
            update_investment(NextId(db["investment_log"]), payload) =>
               /\ update_investment_returns(NextId(db["investment_log"]), payload) = NoRow
               /\ db' = db
      ]_vars

\* C17 witness: the cash flow recorded with amount 100 and linked to log 1 is
\* inactive and carries the values of a later payload
C17_Witness ==
    /\ db["investment_log"] = LinkedDb["investment_log"]
    /\ \E c \in db["cash_flow"] :
          /\ c.id = 1 /\ c.status = "inactive"
          /\ c.amount = -5 /\ c.flow_type = "shouru" /\ c.link_investment_id = NULL

-----------------------------------------------------------------------------
(* Properties of master data maintenance *)

\* C18: in every dimension table a create with a name that is already stored
\* adds no row
C18_DuplicateCreateRejected ==
    [][ \A table \in OpTables : \A name \in OpNames(table) :
          (create_master_data(table, name) /\ \E r \in db[table] : r.name = name)
             => db'[table] = db[table]
      ]_vars

RECURSIVE OrderByName(_)
\* ORDER BY name
OrderByName(rows) ==
    IF rows = {} THEN <<>>
    ELSE LET r == CHOOSE r \in rows : \A o \in rows \ {r} : ~StrLess(o.name, r.name)
         IN <<r>> \o OrderByName(rows \ {r})

\* one list per master model (keyed here by table name, in the code by the
\* plural of MASTER_OVERVIEW), filtered by status == "active" unless
\* include_inactive
list_master_data(d, include_inactive) ==
    [ t \in MasterTables |->
        OrderByName({ r \in d[t] : include_inactive \/ r.status = "active" }) ]

list_active_master_options(d, table) ==
    IF table \notin MasterTables THEN <<>>
    ELSE OrderByName({ r \in d[table] : r.status = "active" })

\* the value toggle_master_status returns: None, or the refreshed row
toggle_master_status_returns(table, row_id, status) ==
    IF ~Has(db[table], row_id) THEN NoRow
    ELSE [Row(db[table], row_id) EXCEPT !.status = status]

-----------------------------------------------------------------------------
(* MasterSpec: master data maintenance of the web application on a seeded     *)
(* store, next to recorded cash flows that reference the master rows          *)

\* the status values a request carries
ToggleStatuses == {"active", "inactive", ""}

MasterInit ==
    /\ db \in {SeededDb, LinkedDb}
    /\ pass = [pc |-> "idle", ti |-> 1, ids |-> <<>>, kept |-> {}, del |-> {},
               names |-> <<>>, rerun |-> FALSE]
    /\ snap = EmptyDb
    /\ nops = 0
    /\ boots = 1
    /\ call = IdleCall

MasterNext ==
    \/ \E table \in OpTables : \E name \in OpNames(table) :
          create_master_data(table, name)
    \/ \E table \in OpTables : \E row_id \in OpIds(db[table]) :
          \E status \in ToggleStatuses :
             toggle_master_status(table, row_id, status)
    \/ \E table \in OpTables : \E row_id \in OpIds(db[table]) :
          soft_delete_master(table, row_id)
    \/ \E table \in OpTables : \E row_id \in OpIds(db[table]) :
          \E name \in OpNames(table) \cup {NoName} :
             \E status \in ToggleStatuses \cup {NoStatus} :
                update_master_data(table, row_id, name, status)
    \/ \E a \in FkIds(db["dim_account"]) : \E c \in FkIds(db["dim_category"]) \cup {NULL} :
          create_cash_flow([date |-> <<2024, 2, 1>>, account_id |-> a, category_id |-> c,
                            flow_type |-> "shouru", amount |-> 100,
                            source_type_id |-> NULL, link_investment_id |-> NULL])
    \/ \E a \in {NULL, 1} :
          create_investment([date |-> <<2024, 2, 1>>, product_id |-> 1, action_id |-> 1,
                             amount |-> 100, channel_account_id |-> a])
    \/ \E record_id \in OpIds(db["cash_flow"]) : soft_delete_cashflow(record_id)

MasterSpec == MasterInit /\ [][MasterNext]_vars

\* C19: without include_inactive, list_master_data and
\* list_active_master_options return, ordered by name, exactly the rows whose
\* status is 'active', NULL or empty; with include_inactive, every row
C19_ListsCountedRows ==
    \A t \in MasterTables :
        LET shown == list_master_data(db, FALSE)[t]
            all == list_master_data(db, TRUE)[t]
            options == list_active_master_options(db, t)
        IN /\ SeqToSet(shown) = Counted(db[t]) /\ Len(shown) = Cardinality(Counted(db[t]))
           /\ SeqToSet(options) = Counted(db[t]) /\ Len(options) = Cardinality(Counted(db[t]))
           /\ SeqToSet(all) = db[t] /\ Len(all) = Cardinality(db[t])
           /\ \A s \in {shown, all, options} :
                 \A k \in 1..(Len(s) - 1) : ~StrLess(s[k + 1].name, s[k].name)

\* C20: toggle_master_status on an absent id returns None and changes nothing;
\* on a stored id it is never refused, whatever references the row, and it
\* sets that row's status to the requested value and changes no other row, no
\* other column and no transactional row (so no foreign key)
C20_ToggleSetsStatusOnly ==
    /\ [](\A table \in OpTables : \A r \in db[table] : \A status \in ToggleStatuses :
            nops < MaxOps =>
               ENABLED (/\ toggle_master_status(table, r.id, status)
                        /\ Row(db'[table], r.id).status = status
                        /\ nops' = nops + 1))
    /\ [][ \A table \in OpTables : \A row_id \in 1..NextId(db[table]) :
             \A status \in ToggleStatuses :
                toggle_master_status(table, row_id, status) =>
                   IF Has(db[table], row_id)
                   THEN OnlyStatusSet(table, row_id, status)
                   ELSE toggle_master_status_returns(table, row_id, status) = NoRow /\ db' = db
         ]_vars

\* C20 witness: account 1 is inactive while two cash flows reference it, both
\* as they were recorded
C20_Witness ==
    /\ \E a \in db["dim_account"] : a.id = 1 /\ a.status = "inactive"
    /\ Cardinality({ c \in db["cash_flow"] : c.account_id = 1 /\ c.status = "active" }) >= 2

-----------------------------------------------------------------------------
(* crud.py: master_impact *)

\* variant: the investment logs of an account are not looked at
impact_map_cash_only ==
    [ dim_account |-> << <<"cash_flow", "account_id">> >>,
      dim_category |-> << <<"cash_flow", "category_id">> >>,
      dim_source_type |-> << <<"cash_flow", "source_type_id">> >>,
      dim_action_type |-> << <<"investment_log", "action_id">> >>,
      dim_product_type |-> << <<"product_master", "type_id">> >>,
      dim_risk_level |-> << <<"product_master", "risk_level_id">> >>,
      dim_metric |-> << <<"product_metrics", "metric_id">> >>,
      dim_investment_term |-> << <<"product_master", "investment_term_id">> >> ]

\* the literal of master_impact: per master table, the (model, column) pairs
\* in list order
impact_map ==
    [ dim_account |-> << <<"cash_flow", "account_id">>,
                         <<"investment_log", "channel_account_id">> >>,
      dim_category |-> << <<"cash_flow", "category_id">> >>,
      dim_source_type |-> << <<"cash_flow", "source_type_id">> >>,
      dim_action_type |-> << <<"investment_log", "action_id">> >>,
      dim_product_type |-> << <<"product_master", "type_id">> >>,
      dim_risk_level |-> << <<"product_master", "risk_level_id">> >>,
      dim_metric |-> << <<"product_metrics", "metric_id">> >>,
      dim_investment_term |-> << <<"product_master", "investment_term_id">> >> ]

RECURSIVE ImpactEntries(_, _, _)
\* for model, column in checks: SELECT count(*) WHERE column == row_id,
\* appended when the count is not 0
ImpactEntries(d, checks, row_id) ==
    IF checks = <<>> THEN <<>>
    ELSE LET count == Cardinality({ r \in d[Head(checks)[1]] : r[Head(checks)[2]] = row_id })
         IN (IF count # 0 THEN << [table |-> Head(checks)[1], count |-> count] >> ELSE <<>>)
            \o ImpactEntries(d, Tail(checks), row_id)

master_impact(d, table, row_id) ==
    ImpactEntries(d, IF table \in DOMAIN impact_map THEN impact_map[table] ELSE <<>>, row_id)

\* the rows of transactional table t that point at row id of master table
\* `table` through a foreign key column
Pointing(t, table, id) ==
    { r \in db[t] : \E m \in ForeignKeys(table) : m[1] = t /\ r[m[2]] = id }

\* C21: master_impact(table, id) has exactly one entry for each transactional
\* table with at least one row, active or not, whose foreign key to the
\* dimension table is id, its count is the number of those rows, and tables
\* with no such row have no entry
C21_ImpactCountsReferences ==
    \A table \in MasterTables : \A id \in 1..NextId(db[table]) :
        LET res == master_impact(db, table, id)
        IN \A t \in TxTables :
              LET entries == { k \in DOMAIN res : res[k].table = t }
              IN IF Pointing(t, table, id) = {}
                 THEN entries = {}
                 ELSE /\ Cardinality(entries) = 1
                      /\ \A k \in entries : res[k].count = Cardinality(Pointing(t, table, id))

\* C21 witness: account 1 is referenced by an inactive cash flow and by an
\* investment log, and its impact list has two entries
C21_Witness ==
    /\ \E c \in db["cash_flow"] : c.account_id = 1 /\ c.status = "inactive"
    /\ \E l \in db["investment_log"] : l.channel_account_id = 1
    /\ Len(master_impact(db, "dim_account", 1)) = 2

-----------------------------------------------------------------------------
(* Properties of the holding rollup *)

\* the action name of a log, by the JOIN of update_holdings
LogActionName(l) == Row(db["dim_action_type"], l.action_id).name

\* the two classes of the rollup's SQL: instr 买 or 申; instr 赎, 分红 or 回款
BuyLike(name) == Contains(name, <<"mai3">>) \/ Contains(name, <<"shen1">>)
RedeemLike(name) ==
    \/ Contains(name, <<"shu2">>)
    \/ Contains(name, <<"fen1", "hong2">>)
    \/ Contains(name, <<"hui2", "kuan3">>)

\* the rollup row written last for a product
LatestHolding(product_id) ==
    LET rows == { h \in db["holding_status"] : h.product_id = product_id }
    IN CHOOSE h \in rows : \A o \in rows : o.id <= h.id

\* C22: when add_investment_log has returned, for every product with logs the
\* rollup's total_invest is the sum of the amounts of its buy-like logs minus
\* the sum of the amounts of its redeem/dividend-like logs; a log in neither
\* class adds nothing
C22_TotalInvestByClass ==
    call.pc = "returned" =>
       \A product_id \in { l.product_id : l \in db["investment_log"] } :
          LET logs == { l \in db["investment_log"] :
                          l.product_id = product_id /\ Has(db["dim_action_type"], l.action_id) }
          IN logs # {} =>
               /\ \E h \in db["holding_status"] : h.product_id = product_id
               /\ LatestHolding(product_id).total_invest =
                     SumOf({ <<l.id, l.amount>> : l \in { x \in logs : BuyLike(LogActionName(x)) } })
                     - SumOf({ <<l.id, l.amount>> :
                                 l \in { x \in logs : ~BuyLike(LogActionName(x))
                                                      /\ RedeemLike(LogActionName(x)) } })

-----------------------------------------------------------------------------
(* routers/data_tools.py: spreadsheet export and import *)

\* MODEL_SHEET_MAP.items(), in dict order
MODEL_SHEET_MAP ==
    << "dim_account", "dim_category", "dim_source_type", "dim_action_type",
       "dim_product_type", "dim_risk_level", "dim_metric", "dim_investment_term",
       "product_master", "holding_status", "investment_log", "cash_flow",
       "product_metrics", "ocr_pending" >>

Sheets == SeqToSet(MODEL_SHEET_MAP)

\* model.__table__.columns with column.type.python_type, for the columns the
\* model carries: "name" is a String held as a sequence of characters, "str" a
\* String held as one word
DimColumns == [id |-> "int", name |-> "name", status |-> "str"]

Columns ==
    [ dim_account |-> DimColumns,
      dim_category |-> [id |-> "int", name |-> "name", status |-> "str", parent_id |-> "int"],
      dim_source_type |-> DimColumns,
      dim_action_type |-> DimColumns,
      dim_product_type |-> DimColumns,
      dim_risk_level |-> DimColumns,
      dim_metric |-> DimColumns,
      dim_investment_term |-> DimColumns,
      product_master |-> [id |-> "int", name |-> "name", type_id |-> "int",
                          risk_level_id |-> "int", status |-> "str"],
      holding_status |-> [id |-> "int", product_id |-> "int", total_invest |-> "float"],
      investment_log |-> [id |-> "int", date |-> "date", product_id |-> "int",
                          action_id |-> "int", amount |-> "float",
                          channel_account_id |-> "int", status |-> "str",
                          cashflow_link_id |-> "int"],
      cash_flow |-> [id |-> "int", date |-> "date", account_id |-> "int",
                     category_id |-> "int", flow_type |-> "str", amount |-> "float",
                     source_type_id |-> "int", status |-> "str",
                     link_investment_id |-> "int"],
      product_metrics |-> [id |-> "int", product_id |-> "int", metric_id |-> "int",
                           record_date |-> "date", value |-> "float"],
      ocr_pending |-> [id |-> "int", status |-> "str"] ]

ColumnNames(sheet_name) == DOMAIN Columns[sheet_name]

\* nullable=False
NotNullColumns ==
    { "name", "status", "date", "account_id", "flow_type", "amount", "product_id",
      "action_id", "metric_id", "record_date", "value" }

\* unique=True on name: the master models but DimCategory, and ProductMaster
UniqueNameSheets == (MasterTables \ {"dim_category"}) \cup {"product_master"}

\* None for a Date column
NoDate == <<>>

\* date.today() on the day of the import
Today == <<2024, 3, 1>>

\* Python None by column type (an amount of the model is never 0)
python_None(type) ==
    CASE type \in {"int", "float"} -> NULL
      [] type = "str" -> NoStatus
      [] type = "name" -> NoName
      [] type = "date" -> NoDate

\* Column(default=...): status and date; ocr_pending.status defaults to pending
HasDefault(column_name) == column_name \in {"status", "date"}
DefaultOf(sheet_name, column_name) ==
    IF column_name = "date" THEN Today
    ELSE IF sheet_name = "ocr_pending" THEN "pending" ELSE "active"

\* a worksheet cell: empty, a number, a text, a date/time
NaN == <<>>
Num(v) == <<"num", v>>
Str(s) == <<"str", s>>
Ts(d) == <<"ts", d>>

\* _model_to_dict and worksheet.append: the cell written for a column value
CellOf(type, v) ==
    IF v = python_None(type) THEN NaN
    ELSE CASE type \in {"int", "float"} -> Num(v)
           [] type \in {"str", "name"} -> Str(v)
           [] type = "date" -> Ts(v)

\* the texts pandas.read_excel takes for a missing value
STR_NA_VALUES == {"", "None", "NA", "NULL", "null", "NaN", "nan", "N/A", "n/a"}
NAME_NA_VALUES == { <<"N", "A">>, <<"N", "/", "A">> }

\* pd.read_excel on one cell of a column
read_cell(type, cell) ==
    IF cell = NaN THEN NaN
    ELSE IF cell[1] = "str"
              /\ \/ type = "str" /\ cell[2] \in STR_NA_VALUES
                 \/ type = "name" /\ cell[2] \in NAME_NA_VALUES
         THEN NaN
         ELSE cell

\* export_all_data: one sheet per model, the model's columns, rows by primary key
export_all_data(d) ==
    [ sheet_name \in Sheets |->
        LET ids == OrderAsc({ r.id : r \in d[sheet_name] }) IN
        [ columns |-> ColumnNames(sheet_name),
          rows |-> [ i \in 1..Len(ids) |->
                       LET row == Row(d[sheet_name], ids[i]) IN
                       [ c \in ColumnNames(sheet_name) |->
                           CellOf(Columns[sheet_name][c], row[c]) ] ] ] ]

\* the outcome of a conversion: a value, or an exception
Raised == [ok |-> FALSE, v |-> NULL]
Returned(v) == [ok |-> TRUE, v |-> v]

\* _coerce_value: None for a missing value; Timestamp -> datetime -> date;
\* int(value) / float(value) raise on a text that is no numeral (no text of the
\* model is one) and on a datetime; any other type returns the value as read
_coerce_value(type, cell) ==
    IF cell = NaN THEN Returned(python_None(type))
    ELSE CASE type = "date" ->
                 IF cell[1] = "ts" THEN Returned(cell[2])
                 ELSE IF cell[1] = "num" THEN Returned(<<1970, 1, 1>>) ELSE Raised
           [] type \in {"int", "float"} ->
                 IF cell[1] = "num" THEN Returned(cell[2]) ELSE Raised
           [] type \in {"str", "name"} -> Returned(cell[2])

\* _clean_record: every column of the model, coerced; an exception of any
\* column leaves the record's loop
_clean_record(sheet_name, record) ==
    LET coerced == [ c \in ColumnNames(sheet_name) |->
                       _coerce_value(Columns[sheet_name][c],
                                     read_cell(Columns[sheet_name][c], record[c])) ]
    IN [ ok |-> \A c \in ColumnNames(sheet_name) : coerced[c].ok,
         v |-> [ c \in ColumnNames(sheet_name) |-> coerced[c].v ] ]
\* lines 269-273: the column held back for the deferred pass
NoColumn == ""
LinkColumn(sheet_name) ==
    CASE sheet_name = "cash_flow" -> "link_investment_id"
      [] sheet_name = "investment_log" -> "cashflow_link_id"
      [] OTHER -> NoColumn

\* variant: a new row is stored with the link value its record carries
ImportRow_linking(sheet_name, mode_normalized, record, acc) ==
    LET cleaned == _clean_record(sheet_name, record)
        link_column == LinkColumn(sheet_name)
        pk_value == cleaned.v.id
        link_value == IF link_column # NoColumn THEN cleaned.v[link_column] ELSE NULL
        IsNone(c) == cleaned.v[c] = python_None(Columns[sheet_name][c])
        NameTaken(own) ==
            /\ sheet_name \in UniqueNameSheets
            /\ \E r \in acc.rows : r.id # own /\ r.name = cleaned.v.name
        Queue(identifier) ==
            IF link_column # NoColumn /\ link_value # NULL
            THEN Append(acc.deferred, <<sheet_name, identifier, link_column, link_value>>)
            ELSE acc.deferred
    IN IF ~cleaned.ok THEN [acc EXCEPT !.ok = FALSE]
       ELSE IF mode_normalized = "append" /\ pk_value # NULL /\ Has(acc.rows, pk_value)
       THEN \* db.get finds the row: setattr for every key left in cleaned
            LET instance == Row(acc.rows, pk_value)
                refused == \/ \E c \in ColumnNames(sheet_name) \ {link_column} :
                                 c \in NotNullColumns /\ IsNone(c)
                           \/ NameTaken(pk_value)
            IN [acc EXCEPT
                  !.rows = (@ \ {instance}) \cup
                           { [c \in ColumnNames(sheet_name) |->
                                IF c = link_column THEN instance[c] ELSE cleaned.v[c]] },
                  !.dirty = @ \/ refused,
                  !.deferred = Queue(pk_value),
                  !.processed = @ + 1]
       ELSE \* model(**cleaned), db.add, db.flush
            LET new_id == IF pk_value = NULL THEN NextId(acc.rows) ELSE pk_value
                refused == \/ acc.dirty
                           \/ Has(acc.rows, new_id)
                           \/ \E c \in ColumnNames(sheet_name) \ {"id", link_column} :
                                 c \in NotNullColumns /\ IsNone(c) /\ ~HasDefault(c)
                           \/ NameTaken(new_id)
            IN IF refused THEN [acc EXCEPT !.ok = FALSE]
               ELSE [acc EXCEPT
                       !.rows = @ \cup
                           { [c \in ColumnNames(sheet_name) |->
                                IF c = "id" THEN new_id
                                ELSE IF IsNone(c) /\ HasDefault(c)
                                     THEN DefaultOf(sheet_name, c)
                                     ELSE cleaned.v[c]] },
                       !.deferred = Queue(new_id),
                       !.processed = @ + 1]

\* lines 265-301, one record of a sheet.  acc is the session while the sheet is
\* processed: rows (the table as the session sees it), deferred (the list
\* deferred_relationships, which no rollback empties), dirty (an UPDATE that
\* the next flush will refuse is pending), ok (no exception so far)
ImportRow(sheet_name, mode_normalized, record, acc) ==
    LET cleaned == _clean_record(sheet_name, record)
        link_column == LinkColumn(sheet_name)
        pk_value == cleaned.v.id
        link_value == IF link_column # NoColumn THEN cleaned.v[link_column] ELSE NULL
        IsNone(c) == cleaned.v[c] = python_None(Columns[sheet_name][c])
        NameTaken(own) ==
            /\ sheet_name \in UniqueNameSheets
            /\ \E r \in acc.rows : r.id # own /\ r.name = cleaned.v.name
        Queue(identifier) ==
            IF link_column # NoColumn /\ link_value # NULL
            THEN Append(acc.deferred, <<sheet_name, identifier, link_column, link_value>>)
            ELSE acc.deferred
    IN IF ~cleaned.ok THEN [acc EXCEPT !.ok = FALSE]
       ELSE IF mode_normalized = "append" /\ pk_value # NULL /\ Has(acc.rows, pk_value)
       THEN \* db.get finds the row: setattr for every key left in cleaned
            LET instance == Row(acc.rows, pk_value)
                refused == \/ \E c \in ColumnNames(sheet_name) \ {link_column} :
                                 c \in NotNullColumns /\ IsNone(c)
                           \/ NameTaken(pk_value)
            IN [acc EXCEPT
                  !.rows = (@ \ {instance}) \cup
                           { [c \in ColumnNames(sheet_name) |->
                                IF c = link_column THEN instance[c] ELSE cleaned.v[c]] },
                  !.dirty = @ \/ refused,
                  !.deferred = Queue(pk_value),
                  !.processed = @ + 1]
       ELSE \* model(**cleaned), db.add, db.flush
            LET new_id == IF pk_value = NULL THEN NextId(acc.rows) ELSE pk_value
                refused == \/ acc.dirty
                           \/ Has(acc.rows, new_id)
                           \/ \E c \in ColumnNames(sheet_name) \ {"id", link_column} :
                                 c \in NotNullColumns /\ IsNone(c) /\ ~HasDefault(c)
                           \/ NameTaken(new_id)
            IN IF refused THEN [acc EXCEPT !.ok = FALSE]
               ELSE [acc EXCEPT
                       !.rows = @ \cup
                           { [c \in ColumnNames(sheet_name) |->
                                IF c = "id" THEN new_id
                                ELSE IF c = link_column THEN NULL
                                ELSE IF IsNone(c) /\ HasDefault(c)
                                     THEN DefaultOf(sheet_name, c)
                                     ELSE cleaned.v[c]] },
                       !.deferred = Queue(new_id),
                       !.processed = @ + 1]

RECURSIVE ImportRows(_, _, _, _)
\* line 265: for record in records, until one raises
ImportRows(sheet_name, mode_normalized, records, acc) ==
    IF records = <<>> \/ ~acc.ok THEN acc
    ELSE ImportRows(sheet_name, mode_normalized, Tail(records),
                    ImportRow(sheet_name, mode_normalized, Head(records), acc))

\* lines 261-307 for a sheet that is present with all its columns: its rows,
\* then the commit, which flushes what is pending
ImportOf(d, sheet_name, mode_normalized, records, deferred) ==
    LET acc == ImportRows(sheet_name, mode_normalized, records,
                          [ok |-> TRUE, rows |-> d[sheet_name], deferred |-> deferred,
                           dirty |-> FALSE, processed |-> 0])
    IN [acc EXCEPT !.ok = @ /\ ~acc.dirty]

RECURSIVE ApplyDeferred(_, _)
\* lines 309-322: one UPDATE per queued entry, in list order
ApplyDeferred(d, deferred) ==
    IF deferred = <<>> THEN d
    ELSE LET e == Head(deferred) IN
         ApplyDeferred([d EXCEPT ![e[1]] =
                          { IF r.id = e[2] THEN [r EXCEPT ![e[3]] = e[4]] ELSE r : r \in @ }],
                       Tail(deferred))

\* lines 219-234
delete_order ==
    << "product_metrics", "investment_log", "cash_flow", "holding_status",
       "product_master", "ocr_pending", "dim_metric", "dim_action_type",
       "dim_source_type", "dim_category", "dim_account", "dim_product_type",
       "dim_risk_level", "dim_investment_term" >>

\* lines 212-213
ModeNormalized(mode) == IF mode \in {"replace", "append"} THEN mode ELSE "replace"

\* the entries of summary
NotProcessed == [result |-> "none", processed |-> 0]
SheetMissing == [result |-> "mo2 ban3 que1 shi1", processed |-> 0]       \* 模板缺失
ColumnsMissing == [result |-> "que1 shao3 lie4", processed |-> 0]        \* 缺少列
ImportFailed == [result |-> "dao3 ru4 shi1 bai4", processed |-> 0]       \* 导入失败
Imported(processed) == [result |-> "dao3 ru4 cheng2 gong1", processed |-> processed]  \* 导入成功

\* no upload in progress
NoUpload ==
    [pc |-> "idle", wb |-> [s \in {} |-> NaN], store |-> [s \in {} |-> {}],
     mode |-> "", si |-> 0, deferred |-> <<>>, summary |-> [s \in Sheets |-> NotProcessed]]

\* GET /data/export: the user downloads the workbook of the store
ExportAll ==
    /\ Serving /\ call.pc = "idle"
    /\ call' = [call EXCEPT !.pc = "file", !.wb = export_all_data(db), !.store = db]
    /\ UNCHANGED <<db, pass, snap, nops, boots>>

\* what a user does to the workbook before uploading it
EditKinds == {"drop_sheet", "drop_column", "bad_row", "relink", "relink_bad_row"}
EditSheets == {"dim_category", "investment_log", "cash_flow"}

\* the column a user rewrites: the link column, or the category's parent
EditedColumn(sheet_name) ==
    IF sheet_name = "dim_category" THEN "parent_id" ELSE LinkColumn(sheet_name)

\* a row whose id cell holds a text
BadRow(sheet_name) ==
    [c \in ColumnNames(sheet_name) |-> IF c = "id" THEN Str("abc") ELSE NaN]

Relinked(sheet_name, rows) ==
    IF rows = <<>> THEN rows
    ELSE [rows EXCEPT ![1] = [@ EXCEPT ![EditedColumn(sheet_name)] = Num(2)]]

Edited(wb, kind, sheet_name) ==
    LET sheet == wb[sheet_name] IN
    CASE kind = "drop_sheet" -> [s \in DOMAIN wb \ {sheet_name} |-> wb[s]]
      [] kind = "drop_column" ->
            [wb EXCEPT ![sheet_name] =
                [columns |-> sheet.columns \ {"status"},
                 rows |-> [i \in DOMAIN sheet.rows |->
                             [c \in DOMAIN sheet.rows[i] \ {"status"} |-> sheet.rows[i][c]]]]]
      [] kind = "bad_row" ->
            [wb EXCEPT ![sheet_name].rows = Append(@, BadRow(sheet_name))]
      [] kind = "relink" ->
            [wb EXCEPT ![sheet_name].rows = Relinked(sheet_name, @)]
      [] kind = "relink_bad_row" ->
            [wb EXCEPT ![sheet_name].rows =
                Append(Relinked(sheet_name, @), BadRow(sheet_name))]

EditWorkbook(kind, sheet_name) ==
    /\ call.pc = "file"
    /\ call' = [call EXCEPT !.pc = "edited", !.wb = Edited(call.wb, kind, sheet_name)]
    /\ UNCHANGED <<db, pass, snap, nops, boots>>

\* POST /data/import, lines 182-244: the file is read, and in replace mode
\* every table is emptied and the deletion committed
import_data(mode) ==
    /\ Serving /\ nops < MaxOps
    /\ call.pc \in {"file", "edited"}
    /\ db' = IF ModeNormalized(mode) = "replace"
             THEN [t \in DOMAIN db |-> IF t \in SeqToSet(delete_order) THEN {} ELSE db[t]]
             ELSE db
    /\ call' = [call EXCEPT !.pc = "sheets", !.mode = ModeNormalized(mode), !.si = 1,
                            !.deferred = <<>>,
                            !.summary = [s \in Sheets |-> NotProcessed]]
    /\ pass' = [pass EXCEPT !.pc = "import", !.rerun = FALSE]
    /\ nops' = nops + 1
    /\ snap' = EmptyDb
    /\ UNCHANGED boots

\* variant: the first failed sheet ends the loop
ImportSheet_aborting ==
    /\ call.pc = "sheets" /\ call.si <= Len(MODEL_SHEET_MAP)
    /\ LET sheet_name == MODEL_SHEET_MAP[call.si] IN
       IF sheet_name \notin DOMAIN call.wb
       THEN /\ call' = [call EXCEPT !.si = Len(MODEL_SHEET_MAP) + 1,
                                    !.summary[sheet_name] = SheetMissing]
            /\ UNCHANGED db
       ELSE IF ~(ColumnNames(sheet_name) \subseteq call.wb[sheet_name].columns)
       THEN /\ call' = [call EXCEPT !.si = Len(MODEL_SHEET_MAP) + 1,
                                    !.summary[sheet_name] = ColumnsMissing]
            /\ UNCHANGED db
       ELSE LET acc == ImportOf(db, sheet_name, call.mode, call.wb[sheet_name].rows,
                                call.deferred) IN
            IF acc.ok
            THEN /\ db' = [db EXCEPT ![sheet_name] = acc.rows]
                 /\ call' = [call EXCEPT !.si = @ + 1, !.deferred = acc.deferred,
                                         !.summary[sheet_name] = Imported(acc.processed)]
            ELSE /\ UNCHANGED db
                 /\ call' = [call EXCEPT !.si = Len(MODEL_SHEET_MAP) + 1,
                                         !.deferred = acc.deferred,
                                         !.summary[sheet_name] = ImportFailed]
    /\ UNCHANGED <<pass, snap, nops, boots>>

\* lines 246-307: the next sheet of MODEL_SHEET_MAP, in one transaction
ImportSheet ==
    /\ call.pc = "sheets" /\ call.si <= Len(MODEL_SHEET_MAP)
    /\ LET sheet_name == MODEL_SHEET_MAP[call.si] IN
       IF sheet_name \notin DOMAIN call.wb
       THEN /\ call' = [call EXCEPT !.si = @ + 1, !.summary[sheet_name] = SheetMissing]
            /\ UNCHANGED db
       ELSE IF ~(ColumnNames(sheet_name) \subseteq call.wb[sheet_name].columns)
       THEN /\ call' = [call EXCEPT !.si = @ + 1, !.summary[sheet_name] = ColumnsMissing]
            /\ UNCHANGED db
       ELSE LET acc == ImportOf(db, sheet_name, call.mode, call.wb[sheet_name].rows,
                                call.deferred) IN
            IF acc.ok
            THEN /\ db' = [db EXCEPT ![sheet_name] = acc.rows]
                 /\ call' = [call EXCEPT !.si = @ + 1, !.deferred = acc.deferred,
                                         !.summary[sheet_name] = Imported(acc.processed)]
            ELSE /\ UNCHANGED db
                 /\ call' = [call EXCEPT !.si = @ + 1, !.deferred = acc.deferred,
                                         !.summary[sheet_name] = ImportFailed]
    /\ UNCHANGED <<pass, snap, nops, boots>>

\* lines 309-333: the deferred pass and its commit; the response is returned
ImportLinks ==
    /\ call.pc = "sheets" /\ call.si > Len(MODEL_SHEET_MAP)
    /\ db' = ApplyDeferred(db, call.deferred)
    /\ call' = [call EXCEPT !.pc = "done"]
    /\ pass' = [pass EXCEPT !.pc = "up"]
    /\ UNCHANGED <<snap, nops, boots>>

-----------------------------------------------------------------------------
(* ImportSpec: one export and one upload, among the requests that change the *)
(* status of an account or of a cash flow                                     *)

\* a store with a category tree, and a log and a cash flow that point at each
\* other: the state an earlier import leaves
ImportSeedDb ==
    [ t \in Sheets |->
        CASE t = "dim_account" ->
                { [id |-> 1, name |-> MASTER_DEFAULTS[t][1], status |-> "active"],
                  [id |-> 2, name |-> MASTER_DEFAULTS[t][2], status |-> "active"] }
          [] t = "dim_category" ->
                { [id |-> 1, name |-> MASTER_DEFAULTS[t][1], status |-> "active",
                   parent_id |-> 2],
                  [id |-> 2, name |-> MASTER_DEFAULTS[t][2], status |-> "active",
                   parent_id |-> NULL] }
          [] t = "dim_action_type" ->
                { [id |-> 1, name |-> MASTER_DEFAULTS[t][1], status |-> "active"] }
          [] t = "product_master" ->
                { [id |-> 1, name |-> CustomName, type_id |-> NULL,
                   risk_level_id |-> NULL, status |-> "active"] }
          [] t = "investment_log" ->
                { [id |-> 1, date |-> <<2024, 2, 1>>, product_id |-> 1, action_id |-> 1,
                   amount |-> 100, channel_account_id |-> NULL, status |-> "active",
                   cashflow_link_id |-> 1] }
          [] t = "cash_flow" ->
                { [id |-> 1, date |-> <<2024, 2, 1>>, account_id |-> 1, category_id |-> 1,
                   flow_type |-> "zhichu", amount |-> 100, source_type_id |-> NULL,
                   status |-> "active", link_investment_id |-> 1],
                  [id |-> 2, date |-> <<2024, 2, 1>>, account_id |-> 2, category_id |-> NULL,
                   flow_type |-> "shouru", amount |-> 250, source_type_id |-> NULL,
                   status |-> "active", link_investment_id |-> NULL] }
          [] OTHER -> {} ]

\* an account a user names NA
NaName == <<"N", "A">>

\* the mode field of the upload form
Modes == {"replace", "append", "merge"}

ImportInit ==
    /\ db = ImportSeedDb
    /\ pass = [pc |-> "idle", ti |-> 1, ids |-> <<>>, kept |-> {}, del |-> {},
               names |-> <<>>, rerun |-> FALSE]
    /\ snap = EmptyDb
    /\ nops = 0
    /\ boots = 1
    /\ call = NoUpload

ImportNext ==
    \/ ExportAll
    \/ \E kind \in EditKinds : \E sheet_name \in EditSheets : EditWorkbook(kind, sheet_name)
    \/ \E mode \in Modes : import_data(mode)
    \/ ImportSheet
    \/ ImportLinks
    \/ \E row_id \in OpIds(db["dim_account"]) : \E status \in {"", "inactive"} :
          toggle_master_status("dim_account", row_id, status)
    \/ \E record_id \in OpIds(db["cash_flow"]) : soft_delete_cashflow(record_id)
    \/ create_master_data("dim_account", NaName)

ImportSpec == ImportInit /\ [][ImportNext]_vars

\* C23: when an upload in replace mode of the workbook as it was exported
\* returns, every table holds the rows the export read
C23_RoundTrip ==
    [][ (/\ call.pc = "sheets" /\ call'.pc = "done"
         /\ call.mode = "replace"
         /\ call.wb = export_all_data(call.store))
           => db' = call.store ]_vars

\* the entries of summary that report a failure
Failures == {SheetMissing, ColumnsMissing, ImportFailed}

\* the sheet the loop is at fails: it is missing, lacks a column, or one of
\* its records or its commit raises
SheetFails ==
    LET sheet_name == MODEL_SHEET_MAP[call.si] IN
    \/ sheet_name \notin DOMAIN call.wb
    \/ ~(ColumnNames(sheet_name) \subseteq call.wb[sheet_name].columns)
    \/ ~ImportOf(db, sheet_name, call.mode, call.wb[sheet_name].rows, call.deferred).ok

\* C24: when the sheet the loop is at fails, a failure is recorded under its
\* name, the loop goes on to the next sheet and the tables of the sheets before
\* it keep the rows they had; when the upload has returned every sheet has an
\* entry in the summary
C24_FailureDoesNotAbort ==
    /\ [][ (call.pc = "sheets" /\ call.si <= Len(MODEL_SHEET_MAP) /\ SheetFails)
              => /\ call'.summary[MODEL_SHEET_MAP[call.si]] \in Failures
                 /\ call'.pc = "sheets" /\ call'.si = call.si + 1
                 /\ \A i \in 1..(call.si - 1) :
                       db'[MODEL_SHEET_MAP[i]] = db[MODEL_SHEET_MAP[i]] ]_vars
    /\ [](call.pc = "done" => \A s \in Sheets : call.summary[s] # NotProcessed)

\* C24 witness: a replace upload has returned, investment_log failed, the
\* accounts imported before it and the cash flows imported after it are stored
C24_Witness ==
    /\ call.pc = "done" /\ call.mode = "replace"
    /\ call.summary["investment_log"] = ImportFailed
    /\ call.summary["dim_account"] = Imported(2)
    /\ call.summary["cash_flow"] = Imported(2)
    /\ db["investment_log"] = {}
    /\ Cardinality(db["dim_account"]) = 2
    /\ Cardinality(db["cash_flow"]) = 2

\* table t gets a row whose link column holds a value the stored row did not hold
LinkWritten(t, column_name) ==
    \E r \in db'[t] \ db[t] :
       /\ r[column_name] # NULL
       /\ \A o \in db[t] : o.id = r.id => o[column_name] # r[column_name]

\* the first pass: the loop over the sheets has not ended
FirstPass == call.pc = "sheets" /\ call.si <= Len(MODEL_SHEET_MAP)

C30_FailedSheetUntouched ==
    [][ (call.pc = "sheets" /\ call'.pc = "done")
           => \A s \in Sheets : call.summary[s] \in Failures => db'[s] = db[s] ]_vars

-----------------------------------------------------------------------------
(* crud.py: product metrics *)

\* add_product_metric: models.ProductMetric(**payload.dict()), add, commit
add_product_metric(payload) ==
    /\ Serving /\ nops < MaxOps
    /\ db' = [db EXCEPT !["product_metrics"] =
                @ \cup {[id |-> NextId(@), product_id |-> payload.product_id,
                         metric_id |-> payload.metric_id,
                         record_date |-> payload.record_date,
                         value |-> payload.value]}]
    /\ Touch
    /\ UNCHANGED <<boots, call>>

\* update_product_metric: None for an absent id, else every field of the
\* payload is set on the row
update_product_metric(record_id, payload) ==
    /\ Serving /\ nops < MaxOps
    /\ IF ~Has(db["product_metrics"], record_id)
       THEN UNCHANGED <<nops, db, pass, snap>>
       ELSE /\ db' = [db EXCEPT !["product_metrics"] =
                        { IF r.id = record_id
                          THEN [r EXCEPT !.product_id = payload.product_id,
                                         !.metric_id = payload.metric_id,
                                         !.record_date = payload.record_date,
                                         !.value = payload.value]
                          ELSE r : r \in @ }]
            /\ Touch
    /\ UNCHANGED <<boots, call>>

\* ProductMetricCreate payloads as the router builds them: one product, the
\* metrics 净值 and 收益率, three days, two values
MetricPayloads ==
    [ product_id : {1}, metric_id : {1, 2},
      record_date : { <<2024, 2, 1>>, <<2024, 2, 2>>, <<2024, 3, 1>> }, value : {3, 4} ]

\* the store after the first start and add_product for one product
MetricSeedDb ==
    [ SeededDb EXCEPT
        !["product_master"] =
           { [id |-> 1, name |-> CustomName, type_id |-> NULL, risk_level_id |-> NULL,
              status |-> "active"] } ]

MetricInit ==
    /\ db = MetricSeedDb
    /\ pass = [pc |-> "idle", ti |-> 1, ids |-> <<>>, kept |-> {}, del |-> {},
               names |-> <<>>, rerun |-> FALSE]
    /\ snap = EmptyDb
    /\ nops = 0
    /\ boots = 1
    /\ call = IdleCall

MetricNext ==
    \/ \E payload \in MetricPayloads : add_product_metric(payload)
    \/ \E record_id \in OpIds(db["product_metrics"]) : \E payload \in MetricPayloads :
          update_product_metric(record_id, payload)

MetricSpec == MetricInit /\ [][MetricNext]_vars

\* C26: no two rows of product_metrics have the same product, metric and
\* record date
C26_NaturalKeyUnique ==
    \A a, b \in db["product_metrics"] :
       (a.product_id = b.product_id /\ a.metric_id = b.metric_id
          /\ a.record_date = b.record_date) => a.id = b.id

-----------------------------------------------------------------------------
(* SeedSpec: two workers start on a new store and run init_db at once.  Each  *)
(* has its own session; a statement sees what is committed, and a commit is   *)
(* one step.  In this specification pass maps a worker to its position.       *)

Workers == {1, 2}

\* a worker that has not started
NotStarted == [pc |-> "stopped", ti |-> 1, names |-> <<>>]

\* init_db, lines 105-110: the tables exist, the pass begins with the first model
WorkerStart(w) ==
    /\ pass[w].pc = "stopped"
    /\ pass' = [pass EXCEPT ![w] = [pc |-> "scan", ti |-> 1, names |-> <<>>]]
    /\ boots' = boots + 1
    /\ UNCHANGED <<db, snap, nops, call>>

\* lines 56-75: the rows with a default name are loaded and walked, the commit
\* flushes the rows set active.  No duplicate is loaded in this specification:
\* a second row of a name is stored only after both workers have loaded the table
WorkerScan(w) ==
    /\ pass[w].pc = "scan"
    /\ LET model_cls == TableSeq[pass[w].ti]
           s == Scan(db[model_cls], LoadRows(db, model_cls), {}, {}) IN
       /\ s.rest = <<>>
       /\ db' = [db EXCEPT ![model_cls] = Flush(@, s.act, {})]
    /\ pass' = [pass EXCEPT ![w].pc = "read"]
    /\ UNCHANGED <<snap, nops, boots, call>>

\* lines 77-81: existing_names is read
WorkerRead(w) ==
    /\ pass[w].pc = "read"
    /\ pass' = [pass EXCEPT ![w].pc = "insert",
                            ![w].names = MissingNames(db[TableSeq[pass[w].ti]],
                                                      MASTER_DEFAULTS[TableSeq[pass[w].ti]])]
    /\ UNCHANGED <<db, snap, nops, boots, call>>

\* lines 83-91: one missing name is inserted and committed; the commit raises
\* IntegrityError when the name column is unique and the name is stored, and
\* the worker rolls back
WorkerInsert(w) ==
    /\ pass[w].pc = "insert"
    /\ pass[w].names # <<>>
    /\ LET model_cls == TableSeq[pass[w].ti]
           name == Head(pass[w].names) IN
       db' = IF UniqueName(model_cls) /\ \E r \in db[model_cls] : r.name = name
             THEN db
             ELSE [db EXCEPT ![model_cls] =
                     @ \cup {[id |-> NextId(@), name |-> name, status |-> "active"]}]
    /\ pass' = [pass EXCEPT ![w].names = Tail(@)]
    /\ UNCHANGED <<snap, nops, boots, call>>

\* line 55: the next model; after the last one init_db returns
WorkerNextTable(w) ==
    /\ pass[w].pc = "insert"
    /\ pass[w].names = <<>>
    /\ pass' = IF pass[w].ti < Len(TableSeq)
               THEN [pass EXCEPT ![w].pc = "scan", ![w].ti = @ + 1]
               ELSE [pass EXCEPT ![w].pc = "idle"]
    /\ UNCHANGED <<db, snap, nops, boots, call>>

SeedInit ==
    /\ db = EmptyDb
    /\ pass = [w \in Workers |-> NotStarted]
    /\ snap = EmptyDb
    /\ nops = 0
    /\ boots = 0
    /\ call = IdleCall

SeedNext ==
    \E w \in Workers :
       \/ WorkerStart(w)
       \/ WorkerScan(w)
       \/ WorkerRead(w)
       \/ WorkerInsert(w)
       \/ WorkerNextTable(w)

SeedSpec == SeedInit /\ [][SeedNext]_vars

\* C27: when both workers have finished, every dimension table holds exactly
\* one row for each of its default names
C27_OneRowPerDefault ==
    (\A w \in Workers : pass[w].pc = "idle") =>
       \A t \in MasterTables : \A name \in SeqToSet(MASTER_DEFAULTS[t]) :
          Cardinality({ r \in db[t] : r.name = name }) = 1

-----------------------------------------------------------------------------
(* Properties of the rollup table and of the monthly reconciliation *)

\* C28: between two calls of add_investment_log, holding_status holds at most
\* one row for a product
C28_OneHoldingPerProduct ==
    call.pc \in {"idle", "returned"} =>
       \A a, b \in db["holding_status"] : a.product_id = b.product_id => a.id = b.id

\* a sequence in reverse order: sort_values("month", ascending=False)
Reversed(s) == [i \in 1..Len(s) |-> s[Len(s) + 1 - i]]

\* _calculate_monthly_consistency: per month, the log amounts by the SQL
\* classes against the amounts of the linked cash flows by direction; the
\* months of either side (outer merge, fillna(0)), newest first
_calculate_monthly_consistency(d) ==
    LET joined == { l \in d["investment_log"] : Has(d["dim_action_type"], l.action_id) }
        name(l) == Row(d["dim_action_type"], l.action_id).name
        linked == { c \in d["cash_flow"] : c.link_investment_id # NULL }
        months == { strftime_Y_m(l.date) : l \in joined }
                  \cup { strftime_Y_m(c.date) : c \in linked }
        logs(month) == { l \in joined : strftime_Y_m(l.date) = month }
        flows(month) == { c \in linked : strftime_Y_m(c.date) = month }
        invest_out(month) ==
            SumOf({ <<l.id, IF BuyLike(name(l)) THEN l.amount ELSE 0>> : l \in logs(month) })
        invest_in(month) ==
            SumOf({ <<l.id, IF RedeemLike(name(l)) THEN l.amount ELSE 0>> : l \in logs(month) })
        cash_out(month) ==
            SumOf({ <<c.id, IF c.flow_type = "zhichu" THEN c.amount ELSE 0>> : c \in flows(month) })
        cash_in(month) ==
            SumOf({ <<c.id, IF c.flow_type = "shouru" THEN c.amount ELSE 0>> : c \in flows(month) })
        order == Reversed(sorted(months))
    IN [ i \in 1..Len(order) |->
           [ month |-> order[i],
             invest_out |-> invest_out(order[i]), invest_in |-> invest_in(order[i]),
             cash_out |-> cash_out(order[i]), cash_in |-> cash_in(order[i]),
             zhichu_chayi |-> invest_out(order[i]) - cash_out(order[i]),     \* 支出差异
             shouru_chayi |-> invest_in(order[i]) - cash_in(order[i]) ] ]    \* 收入差异

-----------------------------------------------------------------------------
(* ReconSpec: the dashboard script when every log is recorded by              *)
(* add_investment_log with link_cashflow=True, every call runs to its end and *)
(* nothing else writes to cash_flow or investment_log                         *)

\* the action names a user adds: 卖出, 加仓
ReconActionNames == { <<"mai4", "chu1">>, <<"jia1", "cang1">> }

\* the days and amounts of the calls
ReconDates == { <<2024, 2, 1>>, <<2024, 3, 1>> }
ReconAmounts == {100, 250}

ReconNext ==
    \/ create_tables
    \/ \E new_name \in ReconActionNames : AddToMaster("dim_action_type", new_name)
    \/ \E log_date \in ReconDates : \E action_id \in FkIds(db["dim_action_type"]) :
          \E amount \in ReconAmounts :
             AddLogInsert(log_date, 1, action_id, amount, NULL, TRUE)
    \/ AddLogCashFlow
    \/ AddLogBackLink
    \/ AddLogReturn

ReconSpec == DashInit /\ [][ReconNext]_vars

\* C29: between two calls, every month of the reconciliation shows no
\* difference on the expense side and none on the income side
C29_ReconciliationBalanced ==
    call.pc \in {"idle", "returned"} =>
       LET res == _calculate_monthly_consistency(db) IN
       \A i \in DOMAIN res : res[i].zhichu_chayi = 0 /\ res[i].shouru_chayi = 0

=============================================================================
